---- MODULE Spec2Model ----
(***************************************************************************)
(* The task tracker's client-side state layer, in its three versions:      *)
(*   "App"           src/src/App.js                (taskTimers)            *)
(*   "activeTimers"  src/unnamed/part_000:1-1103   (activeTimers)          *)
(*   "runningTimers" src/unnamed/part_000:1104-2133 (runningTimers)        *)
(* One React component each.  An action is one event-loop turn: a handler  *)
(* up to its next await, together with the render it causes.  The effects  *)
(* that depend on [user] run in a turn of their own (RunEffects), right    *)
(* after the render that changed user and before anything else.  An        *)
(* awaited store read or write is served by the store in a later turn;     *)
(* addDoc, which nothing in its handler follows but the form's clearing,   *)
(* is served in the turn that issues it, and so are the timer writes,      *)
(* which no handler awaits.  A task timer is followed second by second     *)
(* (TimerPeriod); stopwatch, stopLog and addLog are history variables.     *)
(***************************************************************************)
EXTENDS Integers, Sequences, FiniteSets, TLC

\* ---------------------------------------------------------------- bounds
MaxTasks == 2
MaxTime == 2
DayLen == 2
MaxOps == 2
MaxCbs == 2
MaxCompletes == 3
MaxResets == 1
MaxAlerts == 2
MaxElapsed == 3
MaxStops == 2
MaxPenalties == 2

\* ------------------------------------------------------------- constants
Variants == {"App", "activeTimers", "runningTimers"}

ADMIN_EMAIL == "atharlatif200@gmail.com"

Users == {"admin", "friend"}

NoUser == "null"

Email(u) == IF u = "admin" THEN ADMIN_EMAIL ELSE "friend@example.com"

TaskIds == 1..MaxTasks

NoStart == -1

\* No instant: a completedAt or lastReset field that is absent.
NoInstant == -1

MaxDay == 61

MonthLen == 30

WeekLen == 7

EpochDay == 4

\* The windows of the chart before they are computed.
NoWindows == [done |-> FALSE, today |-> 0, week |-> 0, month |-> 0]

\* The periods of the chart filter.
Filters == {"today", "week", "month", "all"}

\* A startTime field that holds something else than a Timestamp (a string).
BadStart == -2

StartTimes == 0..MaxTime

HoursInputs == {1, 2}

\* A task document; exists = FALSE stands for "no such document".
NoTask == [exists |-> FALSE, owner |-> NoUser, startTime |-> NoStart, estimatedHours |-> 0, completed |-> FALSE, notified |-> FALSE, status |-> "", elapsed |-> 0]

\* A userStats document.
NoStats == [exists |-> FALSE, tasksCompleted |-> 0, totalHours |-> 0, pushups |-> 0, displayName |-> "", entries |-> {}, lastReset |-> NoInstant]

\* The display names an account can carry at the identity provider.
Names == {"a", "b"}

\* What one Add penalty adds.
PenaltyUnit == 5

\* The daily count a day starts with.
DailyStart == 5

\* Today's private pushup document of a principal (App.js, activeTimers).
NoDaily == [exists |-> FALSE, count |-> 0]

\* Why the store may refuse the reset batch.
Causes == {"permission-denied", "failed-precondition", "unavailable"}

\* An entry of taskTimers / activeTimers / runningTimers; present = FALSE
\* stands for "no entry".  on: the entry shows the timer as running
\* (intervalId kept / isRunning / entry kept); ticking: an interval of it is
\* alive; elapsed: elapsed / seconds / elapsedSeconds.
NoTimer == [present |-> FALSE, on |-> FALSE, ticking |-> FALSE, elapsed |-> 0]

\* What is typed in the fields of the Add task form.
ClearedForm == [title |-> FALSE, start |-> "", hours |-> "1"]

VARIABLES variant, clock, idp, authCbs, user, loading, error, fxPending, crashed, statsDocs, taskDocs, nextId, tasks, tasksSub, snapPending, notifyWrites, completes, resets, showConfirm, alerts, marks, credits, resetLog, nResets, nCompletes, timers, stopwatch, stopLog, allUserStats, statsSub, form, addLog, penalties, dailyPushups, dailyDocs, pushupHistory, dailyPending, pushupPenaltyChecked, nPenalty, resetError, resetFail, idpName, idOrder, chartFilter, chartToday, completedAt, calNow, calOut

vars == <<variant, clock, idp, authCbs, user, loading, error, fxPending, crashed, statsDocs, taskDocs, nextId, tasks, tasksSub, snapPending, notifyWrites, completes, resets, showConfirm, alerts, marks, credits, resetLog, nResets, nCompletes, timers, stopwatch, stopLog, allUserStats, statsSub, form, addLog, penalties, dailyPushups, dailyDocs, pushupHistory, dailyPending, pushupPenaltyChecked, nPenalty, resetError, resetFail, idpName, idOrder, chartFilter, chartToday, completedAt, calNow, calOut>>

authVars == <<idp, authCbs, user, loading, fxPending>>

storeVars == <<statsDocs, taskDocs, nextId>>

opVars == <<completes, resets, nCompletes, nResets>>

ghostVars == <<marks, credits, resetLog>>

timerVars == <<timers, stopwatch, stopLog>>

statsVars == <<allUserStats, statsSub>>

formVars == <<form, addLog>>

penaltyVars == <<penalties, dailyPushups, dailyDocs, pushupHistory, dailyPending, pushupPenaltyChecked, nPenalty>>

noteVars == <<resetError, resetFail>>

calVars == <<calNow, calOut>>

\* ------------------------------------------------------------- helpers
RemoveAt(s, i) == SubSeq(s, 1, i - 1) \o SubSeq(s, i + 1, Len(s))

\* getStartOfDate / setHours(0, 0, 0, 0): midnight of the day of t.
getStartOfDate(t) == t - (t % DayLen)

\* setHours(23, 59, 59, 999): the last instant of the day of t.
EndOfDate(t) == getStartOfDate(t) + DayLen - 1

HasStart(t) == t.startTime \notin {NoStart, BadStart}

IsCompleted(v, t) == IF v = "App" THEN t.status = "completed" ELSE t.completed

Cached(ts) == {i \in TaskIds : ts[i].exists}

\* The documents of one principal's private task collection.
CollectionOf(u, docs) == [i \in TaskIds |-> IF docs[i].exists /\ docs[i].owner = u THEN docs[i] ELSE NoTask]

\* ------------------------------------------------------------ derivation
\* App.js: const now = currentTime; now.setHours(0,0,0,0); now.setHours(23,...):
\* both calls mutate the one Date object, so the "now" the reducer compares
\* against is the end of the current day.
PartitionNow(currentTime) == EndOfDate(currentTime)

isToday(t, currentTime) == t.startTime >= getStartOfDate(currentTime) /\ t.startTime <= EndOfDate(currentTime)

AppActive(t, currentTime) == t.status # "completed" /\ isToday(t, currentTime) /\ t.startTime <= PartitionNow(currentTime)

AppUpcoming(t, currentTime) == t.status # "completed" /\ ~AppActive(t, currentTime) /\ isToday(t, currentTime) /\ t.startTime > PartitionNow(currentTime)

\* App.js: the three lists of the useMemo reducer.
AppPartition(ts, currentTime) ==
  [completed |-> {i \in Cached(ts) : HasStart(ts[i]) /\ ts[i].status = "completed"},
   active |-> {i \in Cached(ts) : HasStart(ts[i]) /\ AppActive(ts[i], currentTime)},
   upcoming |-> {i \in Cached(ts) : HasStart(ts[i]) /\ AppUpcoming(ts[i], currentTime)}]

todayFilter(t, currentTime) == getStartOfDate(t.startTime) = getStartOfDate(currentTime)

\* A variation of categorizedTasksToday: a task is active only after its start.
categorizedTasksTodayStrict(ts, currentTime) ==
  [completed |-> {i \in Cached(ts) : ts[i].completed /\ todayFilter(ts[i], currentTime)},
   active |-> {i \in Cached(ts) : ~ts[i].completed /\ ts[i].startTime < currentTime /\ todayFilter(ts[i], currentTime)},
   upcoming |-> {i \in Cached(ts) : ~ts[i].completed /\ ts[i].startTime > currentTime /\ todayFilter(ts[i], currentTime)}]

\* activeTimers version: completedToday, activeToday, upcomingToday.
categorizedTasksToday(ts, currentTime) ==
  [completed |-> {i \in Cached(ts) : ts[i].completed /\ todayFilter(ts[i], currentTime)},
   active |-> {i \in Cached(ts) : ~ts[i].completed /\ ~(ts[i].startTime > currentTime) /\ todayFilter(ts[i], currentTime)},
   upcoming |-> {i \in Cached(ts) : ~ts[i].completed /\ ts[i].startTime > currentTime /\ todayFilter(ts[i], currentTime)}]

\* A variation of categorizedTasks: the completed flag is not looked at when
\* a started task is put in the active group.
categorizedTasksOverlap(u, ts, currentTime) ==
  IF u = NoUser THEN [completed |-> {}, active |-> {}, upcoming |-> {}]
  ELSE [completed |-> {i \in Cached(ts) : HasStart(ts[i]) /\ ts[i].completed},
        active |-> {i \in Cached(ts) : HasStart(ts[i]) /\ ts[i].startTime <= currentTime},
        upcoming |-> {i \in Cached(ts) : HasStart(ts[i]) /\ ~ts[i].completed /\ ~(ts[i].startTime <= currentTime)}]

\* runningTimers version: completed, active, upcoming.
categorizedTasks(u, ts, currentTime) ==
  IF u = NoUser THEN [completed |-> {}, active |-> {}, upcoming |-> {}]
  ELSE [completed |-> {i \in Cached(ts) : HasStart(ts[i]) /\ ts[i].completed},
        active |-> {i \in Cached(ts) : HasStart(ts[i]) /\ ~ts[i].completed /\ ts[i].startTime <= currentTime},
        upcoming |-> {i \in Cached(ts) : HasStart(ts[i]) /\ ~ts[i].completed /\ ~(ts[i].startTime <= currentTime)}]

\* The three groups the version v derives from (user, tasks, currentTime).
Groups(v, u, ts, currentTime) ==
  CASE v = "App" -> AppPartition(ts, currentTime)
    [] v = "activeTimers" -> categorizedTasksToday(ts, currentTime)
    [] OTHER -> categorizedTasks(u, ts, currentTime)

\* The tasks one pass rings for.  runningTimers: inside categorizedTasks;
\* activeTimers: the sound effect.
Rings(v, u, ts, currentTime) ==
  CASE v = "runningTimers" -> {i \in categorizedTasks(u, ts, currentTime).active : ~ts[i].notified}
    [] v = "activeTimers" -> {i \in Cached(ts) : ~ts[i].completed /\ ~ts[i].notified /\ ts[i].startTime <= currentTime}
    [] OTHER -> {}

\* One more sound for a task; the count is kept up to MaxAlerts.
Rung(n) == IF n < MaxAlerts THEN n + 1 ELSE n

\* The derivation of the groups throws a TypeError during the render.
\* activeTimers calls task.startTime.toDate() on every task; App.js calls
\* task.startTime?.toDate(), which guards a missing field only; runningTimers
\* tests task.startTime?.toDate before the call.
DerivationThrows(v, ts) ==
  CASE v = "activeTimers" -> \E i \in Cached(ts) : ~HasStart(ts[i])
    [] v = "App" -> \E i \in Cached(ts) : ts[i].startTime = BadStart
    [] OTHER -> FALSE

\* The render that follows a change of user, tasks or currentTime: when the
\* derivation throws, the tree is unmounted and no effect runs; otherwise the pass
\* plays the sound once per task of Rings and issues updateDoc(notified: true)
\* under the exposed principal's collection.  In the activeTimers version the
\* effect reads user.uid after playSound: with no principal it throws there.
Pass(u, ts, currentTime) ==
  LET r == Rings(variant, u, ts, currentTime) IN
  IF DerivationThrows(variant, ts)
  THEN /\ crashed' = TRUE
       /\ UNCHANGED <<alerts, notifyWrites>>
  ELSE
  IF variant = "activeTimers" /\ u = NoUser /\ r # {}
  THEN \E i \in r :
         /\ alerts' = [alerts EXCEPT ![i] = Rung(@)]
         /\ crashed' = TRUE
         /\ UNCHANGED notifyWrites
  ELSE /\ alerts' = [i \in TaskIds |-> IF i \in r THEN Rung(alerts[i]) ELSE alerts[i]]
       /\ notifyWrites' = notifyWrites \cup {<<u, i>> : i \in r}
       /\ UNCHANGED crashed

\* ------------------------------------------------------------------ Init
\* The state after the first render, but for the current date of the calendar.
InitProgram ==
  /\ variant \in Variants
  /\ clock = 0
  /\ idp = "unknown"
  /\ authCbs = <<>>
  /\ user = NoUser
  /\ loading = TRUE
  /\ error = ""
  /\ fxPending = FALSE
  /\ crashed = FALSE
  /\ statsDocs = [u \in Users |-> NoStats]
  /\ taskDocs = [i \in TaskIds |-> NoTask]
  /\ nextId = 1
  /\ tasks = [i \in TaskIds |-> NoTask]
  /\ tasksSub = NoUser
  /\ snapPending = FALSE
  /\ notifyWrites = {}
  /\ completes = <<>>
  /\ resets = <<>>
  /\ showConfirm = FALSE
  /\ alerts = [i \in TaskIds |-> 0]
  /\ marks = [i \in TaskIds |-> 0]
  /\ credits = [i \in TaskIds |-> 0]
  /\ resetLog = <<>>
  /\ nResets = 0
  /\ nCompletes = 0
  /\ timers = [i \in TaskIds |-> NoTimer]
  /\ stopwatch = [i \in TaskIds |-> [base |-> 0, periods |-> 0]]
  /\ stopLog = [i \in TaskIds |-> [count |-> 0, elapsed |-> 0]]
  /\ allUserStats = [u \in Users |-> NoStats]
  /\ statsSub = (variant = "activeTimers")
  /\ form = ClearedForm
  /\ addLog = [n |-> 0, result |-> "none"]
  /\ penalties = <<>>
  /\ dailyPushups = DailyStart
  /\ dailyDocs = [u \in Users |-> NoDaily]
  /\ pushupHistory = [u \in Users |-> 0]
  /\ dailyPending = FALSE
  /\ pushupPenaltyChecked = FALSE
  /\ nPenalty = [u \in Users |-> 0]
  /\ resetError = ""
  /\ resetFail = "none"
  /\ idpName = [u \in Users |-> "a"]
  /\ idOrder = [k \in TaskIds |-> k]
  /\ chartFilter = "today"
  /\ chartToday = 0
  /\ completedAt = [i \in TaskIds |-> NoInstant]
  /\ calOut = NoWindows

Init == InitProgram /\ calNow = 0

\* filteredChartData / filteredStats is a useMemo: its body, which takes
\* new Date() and derives the start of today from it, runs again only in a
\* render in which one of its dependencies has changed (chartFilter,
\* allUserStats, user, and tasks except in activeTimers); currentTime is not
\* among them.  chartToday is the start of today the cached result was
\* computed with.
ChartDepsChanged ==
  \/ chartFilter' # chartFilter
  \/ allUserStats' # allUserStats
  \/ user' # user
  \/ (variant # "activeTimers" /\ tasks' # tasks)

ChartMemo == chartToday' = IF ChartDepsChanged THEN getStartOfDate(clock') ELSE chartToday

\* No turn runs between a render and its effects, nor after a crash.
Idle == ~fxPending /\ ~crashed

\* The logged-in view is on screen.
LoggedInView == Idle /\ ~loading /\ user # NoUser

\* ------------------------------------------------------------------ auth
\* setUser(u) and the render it causes.
Expose(u) ==
  /\ user' = u
  /\ fxPending' = (u # user)
  /\ IF u # user THEN Pass(u, tasks, clock) ELSE UNCHANGED <<alerts, notifyWrites, crashed>>

\* onAuthStateChanged's callback, up to its first await.
AuthStateChanged(u) ==
  /\ Idle
  /\ u # idp
  /\ idp' = u
  /\ IF u = NoUser
     THEN /\ Expose(NoUser)
          /\ loading' = FALSE
          /\ error' = IF variant = "App" THEN "" ELSE error
          /\ UNCHANGED authCbs
     ELSE /\ Len(authCbs) < MaxCbs
          /\ authCbs' = Append(authCbs, [uid |-> u, phase |-> "read"])
          /\ loading' = IF variant = "App" THEN TRUE ELSE loading
          /\ UNCHANGED <<user, fxPending, error, alerts, notifyWrites, crashed>>
  /\ UNCHANGED <<variant, clock, storeVars, tasks, tasksSub, snapPending, opVars, showConfirm, ghostVars, timerVars, statsVars, formVars, penaltyVars, noteVars, idpName, idOrder, chartFilter, completedAt, calVars>>
  /\ ChartMemo

\* A callback that takes every record for present.
userDocAssumed(docs, u) == TRUE

\* userDoc.exists() on what getDoc(userStatsRef) returned.
userDocExists(docs, u) == docs[u].exists

\* getDoc(userStatsRef) is served and the callback goes on: to setDoc when the
\* document is absent, to setUser otherwise.
AuthRead(k) ==
  /\ Idle
  /\ k \in 1..Len(authCbs)
  /\ authCbs[k].phase = "read"
  /\ IF userDocExists(statsDocs, authCbs[k].uid)
     THEN /\ authCbs' = RemoveAt(authCbs, k)
          /\ Expose(authCbs[k].uid)
          /\ loading' = FALSE
          /\ error' = IF variant = "App" THEN "" ELSE error
     ELSE /\ authCbs' = [authCbs EXCEPT ![k].phase = "create"]
          /\ UNCHANGED <<user, fxPending, loading, error, alerts, notifyWrites, crashed>>
  /\ UNCHANGED <<variant, clock, idp, storeVars, tasks, tasksSub, snapPending, opVars, showConfirm, ghostVars, timerVars, statsVars, formVars, penaltyVars, noteVars, idpName, idOrder, chartFilter, completedAt, calVars>>
  /\ ChartMemo

\* The document the sign-in callback creates for a new principal.
NewStats(u) == [exists |-> TRUE, tasksCompleted |-> 0, totalHours |-> 0, pushups |-> 0, displayName |-> idpName[u], entries |-> {}, lastReset |-> IF variant = "runningTimers" THEN clock ELSE NoInstant]

\* setDoc(userStatsRef, {..., tasksCompleted: 0, totalHours: 0}) is applied (an
\* overwrite) and the callback ends with setUser.
AuthCreate(k) ==
  /\ Idle
  /\ k \in 1..Len(authCbs)
  /\ authCbs[k].phase = "create"
  /\ statsDocs' = [statsDocs EXCEPT ![authCbs[k].uid] = NewStats(authCbs[k].uid)]
  /\ authCbs' = RemoveAt(authCbs, k)
  /\ Expose(authCbs[k].uid)
  /\ loading' = FALSE
  /\ error' = IF variant = "App" THEN "" ELSE error
  /\ UNCHANGED <<variant, clock, idp, taskDocs, nextId, tasks, tasksSub, snapPending, opVars, showConfirm, ghostVars, timerVars, statsVars, formVars, penaltyVars, noteVars, idpName, idOrder, chartFilter, completedAt, calVars>>
  /\ ChartMemo

\* Whether a delivery of today's pushup document is owed once the effects
\* have run for u: App.js subscribes to the document (and unsubscribes in the
\* cleanup), activeTimers reads it once (fetchPushups), runningTimers keeps
\* the daily count in local state only.
DailyOwed(v, u, owed) ==
  CASE v = "App" -> u # NoUser
    [] v = "activeTimers" -> owed \/ u # NoUser
    [] OTHER -> owed

\* The awaited getDoc or setDoc of a sign-in callback rejects.  No version
\* catches it: the callback ends there, before setUser and setLoading(false).
AuthFail(k) ==
  /\ Idle
  /\ k \in 1..Len(authCbs)
  /\ authCbs' = RemoveAt(authCbs, k)
  /\ UNCHANGED <<variant, clock, idp, user, loading, fxPending, error, crashed, storeVars, tasks, tasksSub, snapPending, notifyWrites, opVars, showConfirm, alerts, ghostVars, timerVars, statsVars, formVars, penaltyVars, noteVars, idpName, idOrder, chartFilter, completedAt, calVars>>
  /\ ChartMemo

\* The account's display name changes at the identity provider.
RenameAccount(u, n) ==
  /\ n # idpName[u]
  /\ idpName' = [idpName EXCEPT ![u] = n]
  /\ UNCHANGED <<variant, clock, authVars, error, crashed, storeVars, tasks, tasksSub, snapPending, notifyWrites, opVars, showConfirm, alerts, ghostVars, timerVars, statsVars, formVars, penaltyVars, noteVars, idOrder, chartFilter, completedAt, calVars>>
  /\ ChartMemo

\* The listeners effect, deps [user]: the cleanup closes the old subscription;
\* with no principal the cache is emptied, otherwise the new principal's tasks
\* are subscribed (the cache keeps its content until the first snapshot).
\* App.js and runningTimers treat the userStats subscription and its cache
\* alike in the same effect; activeTimers subscribes to userStats in an effect
\* of its own with deps [], which runs at mount only.
RunEffects ==
  /\ fxPending
  /\ ~crashed
  /\ fxPending' = FALSE
  /\ tasksSub' = user
  /\ snapPending' = (user # NoUser)
  /\ tasks' = IF user = NoUser THEN [i \in TaskIds |-> NoTask] ELSE tasks
  /\ statsSub' = IF variant = "activeTimers" THEN statsSub ELSE user # NoUser
  /\ allUserStats' = IF variant # "activeTimers" /\ user = NoUser THEN [u \in Users |-> NoStats] ELSE allUserStats
  /\ dailyPending' = DailyOwed(variant, user, dailyPending)
  /\ UNCHANGED <<variant, clock, idp, authCbs, user, loading, error, crashed, storeVars, notifyWrites, opVars, showConfirm, alerts, ghostVars, timerVars, formVars, penalties, dailyPushups, dailyDocs, pushupHistory, pushupPenaltyChecked, nPenalty, noteVars, idpName, idOrder, chartFilter, completedAt, calVars>>
  /\ ChartMemo

\* ------------------------------------------------------ snapshots, clock
\* A cache that keeps its own copy of a task the snapshot also holds.
mergeTasks(prev, snap) == [i \in TaskIds |-> IF prev[i].exists /\ snap[i].exists THEN prev[i] ELSE snap[i]]

\* setTasks(userTasks) with the array built from snapshot.docs: the cache is
\* replaced, whatever it held.
setTasks(prev, snap) == snap

\* onSnapshot's callback: setTasks(snapshot.docs) and the render.
DeliverTasks ==
  /\ Idle
  /\ snapPending
  /\ snapPending' = FALSE
  /\ tasks' = setTasks(tasks, CollectionOf(tasksSub, taskDocs))
  /\ Pass(user, tasks', clock)
  /\ UNCHANGED <<variant, clock, authVars, error, storeVars, tasksSub, opVars, showConfirm, ghostVars, timerVars, statsVars, formVars, penaltyVars, noteVars, idpName, idOrder, chartFilter, completedAt, calVars>>
  /\ ChartMemo

\* The userStats subscription's callback: setAllUserStats(snapshot.docs).  A
\* snapshot is owed whenever the collection differs from what was delivered.
DeliverStats ==
  /\ Idle
  /\ statsSub
  /\ allUserStats # statsDocs
  /\ allUserStats' = statsDocs
  /\ UNCHANGED <<variant, clock, authVars, error, crashed, storeVars, tasks, tasksSub, snapPending, notifyWrites, opVars, showConfirm, alerts, ghostVars, timerVars, statsSub, formVars, penaltyVars, noteVars, idpName, idOrder, chartFilter, completedAt, calVars>>
  /\ ChartMemo

\* What the error callback of a subscription reports with setError; App.js
\* only logs to the console.
SubscriptionMessage(v, kind, e) ==
  CASE v = "App" -> e
    [] v = "activeTimers" -> IF kind = "tasks" THEN "Failed to fetch tasks." ELSE "Failed to fetch user stats for charts."
    [] OTHER -> IF kind = "tasks" THEN "Failed to load tasks." ELSE "Failed to load user stats."

\* The store ends an open subscription with an error: its error callback
\* runs, and the listener gets no further event.
SubscriptionError(kind) ==
  /\ Idle
  /\ IF kind = "tasks"
     THEN /\ tasksSub # NoUser
          /\ tasksSub' = NoUser
          /\ snapPending' = FALSE
          /\ UNCHANGED statsSub
     ELSE /\ statsSub
          /\ statsSub' = FALSE
          /\ UNCHANGED <<tasksSub, snapPending>>
  /\ error' = SubscriptionMessage(variant, kind, error)
  /\ UNCHANGED <<variant, clock, authVars, crashed, storeVars, tasks, notifyWrites, opVars, showConfirm, alerts, ghostVars, timerVars, allUserStats, formVars, penaltyVars, noteVars, idpName, idOrder, chartFilter, completedAt, calVars>>
  /\ ChartMemo

\* App.js setInterval callback: tasks with status 'upcoming' whose start has
\* passed ring and become 'active' in the local list only.
\* The forEach walks the cached array, which is in document-id order, and
\* task.startTime.toDate() throws out of the callback at the first 'upcoming'
\* task whose startTime has no toDate: the tasks behind it are not looked at.
TickThrowsAt(ts) == {k \in 1..Len(idOrder) : ts[idOrder[k]].exists /\ ts[idOrder[k]].status = "upcoming" /\ ~HasStart(ts[idOrder[k]])}

TickReached(ts) == {idOrder[k] : k \in {n \in 1..Len(idOrder) : \A j \in TickThrowsAt(ts) : n < j}}

TickRings(ts, now) == {i \in Cached(ts) \cap TickReached(ts) : ts[i].status = "upcoming" /\ ts[i].startTime <= now}

\* The once-per-second clock: setCurrentTime(new Date()) and the render.
Tick ==
  /\ Idle
  /\ clock < MaxTime
  /\ clock' = clock + 1
  /\ IF variant = "App"
     THEN /\ alerts' = [i \in TaskIds |-> IF i \in TickRings(tasks, clock') THEN Rung(alerts[i]) ELSE alerts[i]]
          /\ tasks' = [i \in TaskIds |-> IF i \in TickRings(tasks, clock') THEN [tasks[i] EXCEPT !.status = "active"] ELSE tasks[i]]
          /\ crashed' = DerivationThrows(variant, tasks')
          /\ UNCHANGED notifyWrites
     ELSE /\ Pass(user, tasks, clock')
          /\ UNCHANGED tasks
  /\ UNCHANGED <<variant, authVars, error, storeVars, tasksSub, snapPending, opVars, showConfirm, ghostVars, timerVars, statsVars, formVars, penaltyVars, noteVars, idpName, idOrder, chartFilter, completedAt, calVars>>
  /\ ChartMemo

\* A task document of owner u changed: the open subscription owes a snapshot.
Touch(u) == snapPending' = (snapPending \/ (tasksSub = u /\ u # NoUser))

\* updateDoc(taskRef, {notified: true}) is applied; it fails when the store
\* refuses it or when the principal's collection has no such document.
ApplyNotify(w, ok) ==
  /\ ~crashed
  /\ w \in notifyWrites
  /\ notifyWrites' = notifyWrites \ {w}
  /\ IF ok /\ taskDocs[w[2]].exists /\ taskDocs[w[2]].owner = w[1] /\ ~taskDocs[w[2]].notified
     THEN /\ taskDocs' = [taskDocs EXCEPT ![w[2]].notified = TRUE]
          /\ Touch(w[1])
     ELSE UNCHANGED <<taskDocs, snapPending>>
  /\ UNCHANGED <<variant, clock, authVars, error, crashed, statsDocs, nextId, tasks, tasksSub, opVars, showConfirm, alerts, ghostVars, timerVars, statsVars, formVars, penaltyVars, noteVars, idpName, idOrder, chartFilter, completedAt, calVars>>
  /\ ChartMemo

\* ----------------------------------------------------------------- tasks
\* The start instants the form can produce.  App.js joins today's date with an
\* HH:MM input; the other versions take a datetime-local input.
FormStarts(v, now) == IF v = "App" THEN {s \in StartTimes : getStartOfDate(s) = getStartOfDate(now)} ELSE StartTimes

\* A new document that is born completed.
NewTaskCompleted(v, u, s, h) == [exists |-> TRUE, owner |-> u, startTime |-> s, estimatedHours |-> h, completed |-> TRUE, notified |-> FALSE, status |-> "completed", elapsed |-> 0]

\* The document addDoc creates.  elapsed is timeElapsed / elapsedSeconds;
\* App.js writes no such field nor a notified one, and its readers take the
\* missing fields as 0 and not alerted.
NewTask(v, u, s, h) == [exists |-> TRUE, owner |-> u, startTime |-> s, estimatedHours |-> h, completed |-> FALSE, notified |-> FALSE, status |-> IF v = "App" THEN "upcoming" ELSE "", elapsed |-> 0]

\* handleAddTask with every field filled in and a start the form can produce
\* (s and h are what the fields parse to): await addDoc is applied (ok) or
\* refused, and the handler ends; after a success the form is reset.
handleAddTask(s, h, ok) ==
  /\ LoggedInView
  /\ s \in FormStarts(variant, clock)
  /\ nextId <= MaxTasks
  /\ IF ok
     THEN /\ taskDocs' = [taskDocs EXCEPT ![nextId] = NewTask(variant, user, s, h)]
          /\ nextId' = nextId + 1
          /\ Touch(user)
          /\ error' = ""
          /\ form' = ClearedForm
     ELSE /\ error' = "Failed to add task."
          /\ UNCHANGED <<taskDocs, nextId, snapPending, form>>
  /\ addLog' = [n |-> 1 - addLog.n, result |-> IF ok THEN "added" ELSE "failed"]
  /\ UNCHANGED <<variant, clock, authVars, crashed, statsDocs, tasks, tasksSub, notifyWrites, completes, resets, nCompletes, nResets, showConfirm, alerts, ghostVars, timerVars, statsVars, penaltyVars, noteVars, idpName, idOrder, chartFilter, completedAt, calVars>>
  /\ ChartMemo

\* ------------------------------------------------------------------ form
\* What can stand in the start field: nothing, a text no date can be read
\* from (where the browser shows the input as a plain text field), or an
\* instant; in App.js a time of day.
TypedStarts == {"", "x"} \cup {ToString(s) : s \in StartTimes}

\* What can stand in the hours field of type number: nothing or a number.
TypedHours == {"", "-1", "0"} \cup {ToString(h) : h \in HoursInputs}

Forms == [title : BOOLEAN, start : TypedStarts, hours : TypedHours]

\* new Date(...) of the start field; NoStart stands for an invalid Date.
\* App.js joins today's date and the HH:MM typed, the other versions read a
\* datetime-local value.
ParseStart(v, str, now) ==
  IF str \notin {ToString(s) : s \in StartTimes} THEN NoStart
  ELSE LET n == CHOOSE s \in StartTimes : ToString(s) = str IN
       IF v # "App" THEN n
       ELSE IF n < DayLen THEN getStartOfDate(now) + n ELSE NoStart

\* parseFloat of a non-empty hours field.
parseFloat(str) ==
  CASE str = "-1" -> -1
    [] str = "0" -> 0
    [] OTHER -> CHOOSE h \in HoursInputs : ToString(h) = str

\* A browser check that lets every submit through.
MinHoursIgnored(f) == TRUE

\* The browser's check of the hours input before it lets a submit through:
\* min="0.1" (no field is required, so an empty one passes).
MinHoursMet(f) == f.hours = "" \/ parseFloat(f.hours) >= 1

\* The handler's first test: !newTaskTitle || !newTaskTime || !newTaskHours.
FieldMissing(f) == ~f.title \/ f.start = "" \/ f.hours = ""

\* What the handler reports for a missing field; App.js returns in silence.
MissingMessage(v, e) ==
  CASE v = "App" -> e
    [] v = "activeTimers" -> "Please fill in all fields."
    [] OTHER -> "Please fill out all fields."

\* What the handler reports for a start it cannot read.
InvalidMessage(v) ==
  CASE v = "App" -> "Invalid time format. Use HH:MM."
    [] v = "activeTimers" -> "Invalid date format."
    [] OTHER -> "Invalid date/time format."

\* The onChange handlers of the three inputs.
TypeForm(f) ==
  /\ LoggedInView
  /\ f \in Forms
  /\ f # form
  /\ form' = f
  /\ UNCHANGED <<variant, clock, authVars, error, crashed, storeVars, tasks, tasksSub, snapPending, notifyWrites, opVars, showConfirm, alerts, ghostVars, timerVars, statsVars, addLog, penaltyVars, noteVars, idpName, idOrder, chartFilter, completedAt, calVars>>
  /\ ChartMemo

\* The submit of the Add task form: the browser holds it back when the hours
\* are under the minimum; else handleAddTask runs from its first line.
SubmitAddTask(ok) ==
  /\ LoggedInView
  /\ IF ~MinHoursMet(form)
     THEN /\ ok
          /\ addLog' = [n |-> 1 - addLog.n, result |-> "blocked"]
          /\ UNCHANGED <<variant, clock, authVars, error, crashed, storeVars, tasks, tasksSub, snapPending, notifyWrites, opVars, showConfirm, alerts, ghostVars, timerVars, statsVars, form, penaltyVars, noteVars, idpName, idOrder, chartFilter, completedAt, calVars>>
          /\ ChartMemo
     ELSE IF FieldMissing(form)
     THEN /\ ok
          /\ error' = MissingMessage(variant, error)
          /\ addLog' = [n |-> 1 - addLog.n, result |-> "missing"]
          /\ UNCHANGED <<variant, clock, authVars, crashed, storeVars, tasks, tasksSub, snapPending, notifyWrites, opVars, showConfirm, alerts, ghostVars, timerVars, statsVars, form, penaltyVars, noteVars, idpName, idOrder, chartFilter, completedAt, calVars>>
          /\ ChartMemo
     ELSE IF ParseStart(variant, form.start, clock) = NoStart
     THEN /\ ok
          /\ error' = InvalidMessage(variant)
          /\ addLog' = [n |-> 1 - addLog.n, result |-> "invalid"]
          /\ UNCHANGED <<variant, clock, authVars, crashed, storeVars, tasks, tasksSub, snapPending, notifyWrites, opVars, showConfirm, alerts, ghostVars, timerVars, statsVars, form, penaltyVars, noteVars, idpName, idOrder, chartFilter, completedAt, calVars>>
          /\ ChartMemo
     ELSE handleAddTask(ParseStart(variant, form.start, clock), parseFloat(form.hours), ok)

\* ---------------------------------------------------------------- timers
\* runningTimers: the timer management effect, deps [runningTimers].  Its
\* cleanup holds the runningTimers of the previous render and clears their
\* intervals each time the state object is replaced by new.
Rerender(v, old, new) == IF v = "runningTimers" THEN [i \in TaskIds |-> IF old[i].present THEN [new[i] EXCEPT !.ticking = FALSE] ELSE new[i]] ELSE new

\* The elapsed value a started timer begins with: the entry's own value in
\* App.js and activeTimers (0 without an entry), the cached task's
\* elapsedSeconds in runningTimers.
initialElapsed(v, tm, t) == IF v = "runningTimers" THEN t.elapsed ELSE IF tm.present THEN tm.elapsed ELSE 0

\* startTaskTimer / handleToggleTaskTimer(taskId, false): the entry written.
startTaskTimer(v, tm, t) == [present |-> TRUE, on |-> TRUE, ticking |-> TRUE, elapsed |-> initialElapsed(v, tm, t)]

\* The local state after stopTaskTimer / handleToggleTaskTimer(taskId, true):
\* App.js drops the intervalId and keeps the elapsed value, activeTimers
\* clears isRunning, runningTimers removes the entry.
stopTaskTimer(v, ts, i) ==
  IF ~ts[i].present THEN ts
  ELSE IF v = "runningTimers" THEN [ts EXCEPT ![i] = NoTimer]
  ELSE [ts EXCEPT ![i].on = FALSE, ![i].ticking = FALSE]

\* runningTimers: updateDoc(taskRef, {elapsedSeconds, timerStarted: false}),
\* not awaited; it is applied at once when the store accepts it.
FlushElapsed(docs, u, i, e, ok) == IF ok /\ docs[i].exists /\ docs[i].owner = u THEN [docs EXCEPT ![i].elapsed = e] ELSE docs

\* The tasks whose row carries the timer buttons: those of the active list;
\* App.js renders the buttons under task.status === 'active' only.
TimerButtons(v, u, ts, currentTime) == {i \in Groups(v, u, ts, currentTime).active : v = "App" => ts[i].status = "active"}

\* The Start button of an active task whose timer is not shown as running.
Start(i) ==
  /\ LoggedInView
  /\ i \in TimerButtons(variant, user, tasks, clock)
  /\ ~timers[i].on
  /\ timers' = Rerender(variant, timers, [timers EXCEPT ![i] = startTaskTimer(variant, timers[i], tasks[i])])
  /\ stopwatch' = [stopwatch EXCEPT ![i] = [base |-> timers'[i].elapsed, periods |-> 0]]
  /\ snapPending' = IF variant = "runningTimers" /\ taskDocs[i].exists /\ taskDocs[i].owner = user THEN TRUE ELSE snapPending
  /\ UNCHANGED <<variant, clock, authVars, error, crashed, storeVars, tasks, tasksSub, notifyWrites, opVars, showConfirm, alerts, ghostVars, stopLog, statsVars, formVars, penaltyVars, noteVars, idpName, idOrder, chartFilter, completedAt, calVars>>
  /\ ChartMemo

\* One second passes for a timer shown as running: its interval, when it is
\* still alive, adds one to the entry.
TimerPeriod(i) ==
  /\ Idle
  /\ timers[i].on
  /\ stopwatch[i].periods < MaxElapsed
  /\ stopwatch' = [stopwatch EXCEPT ![i].periods = @ + 1]
  /\ timers' = IF timers[i].ticking THEN Rerender(variant, timers, [timers EXCEPT ![i].elapsed = @ + 1]) ELSE timers
  /\ UNCHANGED <<variant, clock, authVars, error, crashed, storeVars, tasks, tasksSub, snapPending, notifyWrites, opVars, showConfirm, alerts, ghostVars, stopLog, statsVars, formVars, penaltyVars, noteVars, idpName, idOrder, chartFilter, completedAt, calVars>>
  /\ ChartMemo

\* The Stop / Pause button of an active task whose timer is shown as running.
Stop(i, ok) ==
  /\ LoggedInView
  /\ i \in TimerButtons(variant, user, tasks, clock)
  /\ timers[i].on
  /\ stopLog[i].count < MaxStops
  /\ stopLog' = [stopLog EXCEPT ![i] = [count |-> @.count + 1, elapsed |-> timers[i].elapsed]]
  /\ timers' = Rerender(variant, timers, stopTaskTimer(variant, timers, i))
  /\ IF variant = "runningTimers"
     THEN /\ taskDocs' = FlushElapsed(taskDocs, user, i, timers[i].elapsed, ok)
          /\ snapPending' = IF taskDocs' # taskDocs THEN TRUE ELSE snapPending
     ELSE /\ ok
          /\ UNCHANGED <<taskDocs, snapPending>>
  /\ UNCHANGED <<variant, clock, authVars, error, crashed, statsDocs, nextId, tasks, tasksSub, notifyWrites, opVars, showConfirm, alerts, ghostVars, stopwatch, statsVars, formVars, penaltyVars, noteVars, idpName, idOrder, chartFilter, completedAt, calVars>>
  /\ ChartMemo

\* runningTimers: the Sign Out button, up to await signOut(auth); the sign-out
\* itself arrives as AuthStateChanged(NoUser).  (App.js: logOut only calls
\* signOut.)
logOut ==
  /\ LoggedInView
  /\ variant = "runningTimers"
  /\ timers' = [i \in TaskIds |-> NoTimer]
  /\ UNCHANGED <<variant, clock, authVars, error, crashed, storeVars, tasks, tasksSub, snapPending, notifyWrites, opVars, showConfirm, alerts, ghostVars, stopwatch, stopLog, statsVars, formVars, penaltyVars, noteVars, idpName, idOrder, chartFilter, completedAt, calVars>>
  /\ ChartMemo

\* activeTimers: the Sign Out button, up to await signOut(auth).
handleSignOut ==
  /\ LoggedInView
  /\ variant = "activeTimers"
  /\ loading' = TRUE
  /\ error' = ""
  /\ UNCHANGED <<variant, clock, idp, authCbs, user, fxPending, crashed, storeVars, tasks, tasksSub, snapPending, notifyWrites, opVars, showConfirm, alerts, ghostVars, timerVars, statsVars, formVars, penaltyVars, noteVars, idpName, idOrder, chartFilter, completedAt, calVars>>
  /\ ChartMemo


\* ------------------------------------------------------------ completion
\* The hours one completion adds to totalHours: task.estimatedHours in App.js
\* and in the runningTimers version; the measured time in the activeTimers
\* version (activeTimers[task.id].seconds / 3600, else task.timeElapsed || 0),
\* which is 0 for a task whose timer was never started and, in whole hours,
\* for the few seconds (MaxElapsed) a timer runs here.
CreditedHours(v, t) == IF v = "activeTimers" THEN 0 ELSE t.estimatedHours

\* The elapsed seconds a completion writes on the task: the timer entry's
\* value, else the cached task's (runningTimers: also when the entry holds 0).
\* App.js writes none.
MeasuredSeconds(v, tm, t) ==
  IF v = "App" THEN 0
  ELSE IF tm.present /\ (v = "activeTimers" \/ tm.elapsed # 0) THEN tm.elapsed
  ELSE t.elapsed

\* completeTask / handleMarkAsComplete / handleCompleteTask up to await
\* getDoc(statsRef).  The button is offered for the tasks of the active list.
\* handleCompleteTask begins with stopTaskTimer(taskId).
CompleteInvoke(i) ==
  /\ LoggedInView
  /\ i \in Groups(variant, user, tasks, clock).active
  /\ Len(completes) < MaxOps
  /\ nCompletes < MaxCompletes
  /\ nCompletes' = nCompletes + 1
  /\ completes' = Append(completes, [uid |-> user, id |-> i, hours |-> CreditedHours(variant, tasks[i]), phase |-> "read", tc |-> 0, th |-> 0, entries |-> {}, elapsed |-> MeasuredSeconds(variant, timers[i], tasks[i])])
  /\ error' = IF variant = "activeTimers" THEN "" ELSE error
  /\ IF variant = "runningTimers" /\ timers[i].present
     THEN /\ timers' = Rerender(variant, timers, stopTaskTimer(variant, timers, i))
          /\ \E ok \in BOOLEAN : taskDocs' = FlushElapsed(taskDocs, user, i, timers[i].elapsed, ok)
          /\ snapPending' = IF taskDocs' # taskDocs THEN TRUE ELSE snapPending
     ELSE UNCHANGED <<timers, taskDocs, snapPending>>
  /\ UNCHANGED <<variant, clock, authVars, crashed, statsDocs, nextId, tasks, tasksSub, notifyWrites, resets, nResets, showConfirm, alerts, ghostVars, stopwatch, stopLog, statsVars, formVars, penaltyVars, noteVars, idpName, idOrder, chartFilter, completedAt, calVars>>
  /\ ChartMemo

\* getDoc(statsRef) is served.  App.js reads a missing document as zeros
\* (statDoc.data()?.tasksCompleted || 0) and calls stopTaskTimer before it
\* commits; the other two stop with an error.
CompleteRead(k) ==
  /\ Idle
  /\ k \in 1..Len(completes)
  /\ completes[k].phase = "read"
  /\ IF statsDocs[completes[k].uid].exists \/ variant = "App"
     THEN /\ completes' = [completes EXCEPT ![k].phase = "commit", ![k].tc = statsDocs[completes[k].uid].tasksCompleted, ![k].th = statsDocs[completes[k].uid].totalHours, ![k].entries = statsDocs[completes[k].uid].entries]
          /\ timers' = IF variant = "App" THEN stopTaskTimer(variant, timers, completes[k].id) ELSE timers
          /\ UNCHANGED error
     ELSE /\ completes' = RemoveAt(completes, k)
          /\ error' = IF variant = "runningTimers" THEN "User stats document not found." ELSE "Failed to complete task."
          /\ UNCHANGED timers
  /\ UNCHANGED <<variant, clock, authVars, crashed, storeVars, tasks, tasksSub, snapPending, notifyWrites, resets, nCompletes, nResets, showConfirm, alerts, ghostVars, stopwatch, stopLog, statsVars, formVars, penaltyVars, noteVars, idpName, idOrder, chartFilter, completedAt, calVars>>
  /\ ChartMemo

\* The completion mark on the task document.
MarkCompleted(v, t) == IF v = "App" THEN [t EXCEPT !.status = "completed"] ELSE [t EXCEPT !.completed = TRUE]

\* The task update of a completion: the mark and, outside App.js, the
\* elapsed seconds the handler took when it was invoked.
CompletedDoc(v, t, op) == IF v = "App" THEN MarkCompleted(v, t) ELSE [MarkCompleted(v, t) EXCEPT !.elapsed = op.elapsed]

\* The counters one completion writes: what it read, plus one task and its hours.
IncrementedStats(op) == [statsDocs[op.uid] EXCEPT !.exists = TRUE, !.tasksCompleted = op.tc + 1, !.totalHours = op.th + op.hours, !.entries = IF variant = "activeTimers" THEN op.entries \cup {op.id} ELSE @]

\* App.js and runningTimers: batch.commit() of the task update and the stats
\* update; the batch fails as a whole when the store refuses it or when either
\* document is missing.
CommitBatch(k, ok) ==
  /\ Idle
  /\ variant # "activeTimers"
  /\ k \in 1..Len(completes)
  /\ completes[k].phase = "commit"
  /\ completes' = RemoveAt(completes, k)
  /\ LET op == completes[k] IN
     IF ok /\ taskDocs[op.id].exists /\ taskDocs[op.id].owner = op.uid /\ statsDocs[op.uid].exists
     THEN /\ taskDocs' = [taskDocs EXCEPT ![op.id] = CompletedDoc(variant, @, op)]
          /\ statsDocs' = [statsDocs EXCEPT ![op.uid] = IncrementedStats(op)]
          /\ marks' = [marks EXCEPT ![op.id] = @ + 1]
          /\ credits' = [credits EXCEPT ![op.id] = @ + 1]
          /\ completedAt' = [completedAt EXCEPT ![op.id] = clock]
          /\ Touch(op.uid)
          /\ timers' = IF variant = "runningTimers" THEN Rerender(variant, timers, [timers EXCEPT ![op.id] = NoTimer]) ELSE timers
          /\ UNCHANGED error
     ELSE /\ error' = IF variant = "runningTimers" THEN "Failed to complete task." ELSE error
          /\ UNCHANGED <<taskDocs, statsDocs, marks, credits, snapPending, timers, completedAt>>
  /\ UNCHANGED <<variant, clock, authVars, crashed, nextId, tasks, tasksSub, notifyWrites, resets, nCompletes, nResets, showConfirm, alerts, resetLog, stopwatch, stopLog, statsVars, formVars, penaltyVars, noteVars, idpName, idOrder, chartFilter, calVars>>
  /\ ChartMemo

\* activeTimers: await updateDoc(taskDocRef, {completed: true, ...}).
UpdateTaskDoc(k, ok) ==
  /\ Idle
  /\ variant = "activeTimers"
  /\ k \in 1..Len(completes)
  /\ completes[k].phase = "commit"
  /\ LET op == completes[k] IN
     IF ok /\ taskDocs[op.id].exists /\ taskDocs[op.id].owner = op.uid
     THEN /\ taskDocs' = [taskDocs EXCEPT ![op.id] = CompletedDoc(variant, @, op)]
          /\ marks' = [marks EXCEPT ![op.id] = @ + 1]
          /\ completes' = [completes EXCEPT ![k].phase = "stats"]
          /\ Touch(op.uid)
          /\ UNCHANGED error
     ELSE /\ completes' = RemoveAt(completes, k)
          /\ error' = "Failed to complete task."
          /\ UNCHANGED <<taskDocs, marks, snapPending>>
  /\ UNCHANGED <<variant, clock, authVars, crashed, statsDocs, nextId, tasks, tasksSub, notifyWrites, resets, nCompletes, nResets, showConfirm, alerts, credits, resetLog, timerVars, statsVars, formVars, penaltyVars, noteVars, idpName, idOrder, chartFilter, completedAt, calVars>>
  /\ ChartMemo

\* activeTimers: await updateDoc(publicStatsDocRef, {tasksCompleted, ...}),
\* then the timer entry of the task is deleted.
UpdateStatsDoc(k, ok) ==
  /\ Idle
  /\ variant = "activeTimers"
  /\ k \in 1..Len(completes)
  /\ completes[k].phase = "stats"
  /\ completes' = RemoveAt(completes, k)
  /\ LET op == completes[k] IN
     IF ok /\ statsDocs[op.uid].exists
     THEN /\ statsDocs' = [statsDocs EXCEPT ![op.uid] = IncrementedStats(op)]
          /\ credits' = [credits EXCEPT ![op.id] = @ + 1]
          /\ completedAt' = [completedAt EXCEPT ![op.id] = clock]
          /\ timers' = [timers EXCEPT ![op.id] = NoTimer]
          /\ UNCHANGED error
     ELSE /\ error' = "Failed to complete task."
          /\ UNCHANGED <<statsDocs, credits, timers, completedAt>>
  /\ UNCHANGED <<variant, clock, authVars, crashed, taskDocs, nextId, tasks, tasksSub, snapPending, notifyWrites, resets, nCompletes, nResets, showConfirm, alerts, marks, resetLog, stopwatch, stopLog, statsVars, formVars, penaltyVars, noteVars, idpName, idOrder, chartFilter, calVars>>
  /\ ChartMemo

\* -------------------------------------------------------------- penalties
\* The penalty counter of the principal's public record: pushupsCompleted in
\* runningTimers, the entries of the pushups array (5 each) in activeTimers,
\* the principal's pushupHistory entries in App.js.
PenaltyCounter(v, u) == IF v = "App" THEN pushupHistory[u] ELSE statsDocs[u].pushups

\* Today's pushup document is delivered (App.js: a snapshot; activeTimers: the
\* getDoc of fetchPushups): the count is taken over, or the document is
\* created with the day's start count when it is absent.
DeliverDaily ==
  /\ Idle
  /\ dailyPending
  /\ user # NoUser
  /\ variant # "runningTimers"
  /\ dailyPending' = FALSE
  /\ IF dailyDocs[user].exists
     THEN /\ dailyPushups' = dailyDocs[user].count
          /\ UNCHANGED dailyDocs
     ELSE /\ dailyDocs' = [dailyDocs EXCEPT ![user] = [exists |-> TRUE, count |-> DailyStart]]
          /\ dailyPushups' = DailyStart
  /\ UNCHANGED <<variant, clock, authVars, error, crashed, storeVars, tasks, tasksSub, snapPending, notifyWrites, opVars, showConfirm, alerts, ghostVars, timerVars, statsVars, formVars, penalties, pushupHistory, pushupPenaltyChecked, nPenalty, noteVars, idpName, idOrder, chartFilter, completedAt, calVars>>
  /\ ChartMemo

\* addPenaltyPushups / handleAddPenalty up to the first await.  activeTimers
\* and App.js first write the private daily count, runningTimers adds to the
\* local count and goes to read the public record.
handleAddPenalty ==
  /\ LoggedInView
  /\ variant = "activeTimers" => ~pushupPenaltyChecked
  /\ Len(penalties) < MaxOps
  /\ nPenalty[user] < MaxPenalties
  /\ nPenalty' = [nPenalty EXCEPT ![user] = @ + 1]
  /\ penalties' = Append(penalties, [uid |-> user, phase |-> IF variant = "runningTimers" THEN "read" ELSE "daily", count |-> dailyPushups + PenaltyUnit, seen |-> 0])
  /\ dailyPushups' = IF variant = "runningTimers" THEN dailyPushups + PenaltyUnit ELSE dailyPushups
  /\ pushupPenaltyChecked' = IF variant = "activeTimers" THEN TRUE ELSE pushupPenaltyChecked
  /\ error' = IF variant = "activeTimers" THEN "" ELSE error
  /\ UNCHANGED <<variant, clock, authVars, crashed, storeVars, tasks, tasksSub, snapPending, notifyWrites, opVars, showConfirm, alerts, ghostVars, timerVars, statsVars, formVars, dailyDocs, pushupHistory, dailyPending, noteVars, idpName, idOrder, chartFilter, completedAt, calVars>>
  /\ ChartMemo

\* How a penalty of the activeTimers version ends: its finally block arms
\* the timeout that enables the checkbox again.
PenaltyEnded(ops, k) == IF variant = "activeTimers" THEN [ops EXCEPT ![k].phase = "cooldown"] ELSE RemoveAt(ops, k)

\* await setDoc(dailyPushupRef, {count: newCount}, {merge: true}): applied or
\* refused.  App.js has no catch: a refusal ends the handler unreported.
PenaltyDaily(k, ok) ==
  /\ Idle
  /\ k \in 1..Len(penalties)
  /\ penalties[k].phase = "daily"
  /\ LET op == penalties[k] IN
     IF ok
     THEN /\ dailyDocs' = [dailyDocs EXCEPT ![op.uid] = [exists |-> TRUE, count |-> op.count]]
          /\ dailyPushups' = IF variant = "activeTimers" THEN op.count ELSE dailyPushups
          /\ dailyPending' = IF variant = "App" /\ tasksSub = op.uid THEN TRUE ELSE dailyPending
          /\ penalties' = [penalties EXCEPT ![k].phase = IF variant = "App" THEN "history" ELSE "read"]
          /\ UNCHANGED error
     ELSE /\ penalties' = PenaltyEnded(penalties, k)
          /\ error' = IF variant = "activeTimers" THEN "Failed to add penalty." ELSE error
          /\ UNCHANGED <<dailyDocs, dailyPushups, dailyPending>>
  /\ UNCHANGED <<variant, clock, authVars, crashed, storeVars, tasks, tasksSub, snapPending, notifyWrites, opVars, showConfirm, alerts, ghostVars, timerVars, statsVars, formVars, pushupHistory, pushupPenaltyChecked, nPenalty, noteVars, idpName, idOrder, chartFilter, completedAt, calVars>>
  /\ ChartMemo

\* getDoc of the public record is served.  activeTimers throws when the
\* record is absent; runningTimers reads an absent counter as 0.
PenaltyRead(k) ==
  /\ Idle
  /\ k \in 1..Len(penalties)
  /\ penalties[k].phase = "read"
  /\ LET op == penalties[k] IN
     IF variant = "activeTimers" /\ ~statsDocs[op.uid].exists
     THEN /\ penalties' = PenaltyEnded(penalties, k)
          /\ error' = "Failed to add penalty."
     ELSE /\ penalties' = [penalties EXCEPT ![k].phase = "write", ![k].seen = statsDocs[op.uid].pushups]
          /\ UNCHANGED error
  /\ UNCHANGED <<variant, clock, authVars, crashed, storeVars, tasks, tasksSub, snapPending, notifyWrites, opVars, showConfirm, alerts, ghostVars, timerVars, statsVars, formVars, dailyPushups, dailyDocs, pushupHistory, dailyPending, pushupPenaltyChecked, nPenalty, noteVars, idpName, idOrder, chartFilter, completedAt, calVars>>
  /\ ChartMemo

\* await updateDoc of the public record with what was read plus one penalty
\* (runningTimers: pushupsCompleted: currentPushups + 5; activeTimers: the
\* array read plus one entry of 5): applied, or refused or without a record.
PenaltyWrite(k, ok) ==
  /\ Idle
  /\ k \in 1..Len(penalties)
  /\ penalties[k].phase = "write"
  /\ penalties' = PenaltyEnded(penalties, k)
  /\ LET op == penalties[k] IN
     IF ok /\ statsDocs[op.uid].exists
     THEN /\ statsDocs' = [statsDocs EXCEPT ![op.uid].pushups = op.seen + PenaltyUnit]
          /\ UNCHANGED error
     ELSE /\ error' = "Failed to add penalty."
          /\ UNCHANGED statsDocs
  /\ UNCHANGED <<variant, clock, authVars, crashed, taskDocs, nextId, tasks, tasksSub, snapPending, notifyWrites, opVars, showConfirm, alerts, ghostVars, timerVars, statsVars, formVars, dailyPushups, dailyDocs, pushupHistory, dailyPending, pushupPenaltyChecked, nPenalty, noteVars, idpName, idOrder, chartFilter, completedAt, calVars>>
  /\ ChartMemo

\* App.js: await addDoc(pushupHistory, {uid, added: 5, ...}): applied or
\* refused (unreported).
PenaltyHistory(k, ok) ==
  /\ Idle
  /\ k \in 1..Len(penalties)
  /\ penalties[k].phase = "history"
  /\ penalties' = RemoveAt(penalties, k)
  /\ pushupHistory' = IF ok THEN [pushupHistory EXCEPT ![penalties[k].uid] = @ + PenaltyUnit] ELSE pushupHistory
  /\ UNCHANGED <<variant, clock, authVars, error, crashed, storeVars, tasks, tasksSub, snapPending, notifyWrites, opVars, showConfirm, alerts, ghostVars, timerVars, statsVars, formVars, dailyPushups, dailyDocs, dailyPending, pushupPenaltyChecked, nPenalty, noteVars, idpName, idOrder, chartFilter, completedAt, calVars>>
  /\ ChartMemo

\* activeTimers: the timeout of the finally block, a second later:
\* setPushupPenaltyChecked(false).
PenaltyReenable(k) ==
  /\ Idle
  /\ k \in 1..Len(penalties)
  /\ penalties[k].phase = "cooldown"
  /\ penalties' = RemoveAt(penalties, k)
  /\ pushupPenaltyChecked' = FALSE
  /\ UNCHANGED <<variant, clock, authVars, error, crashed, storeVars, tasks, tasksSub, snapPending, notifyWrites, opVars, showConfirm, alerts, ghostVars, timerVars, statsVars, formVars, dailyPushups, dailyDocs, pushupHistory, dailyPending, nPenalty, noteVars, idpName, idOrder, chartFilter, completedAt, calVars>>
  /\ ChartMemo

\* ----------------------------------------------------------------- reset
\* The "Reset All My Data" button, rendered for the privileged e-mail only.
OpenResetDialog ==
  /\ LoggedInView
  /\ Email(user) = ADMIN_EMAIL
  /\ ~showConfirm
  /\ showConfirm' = TRUE
  /\ UNCHANGED <<variant, clock, authVars, error, crashed, storeVars, tasks, tasksSub, snapPending, notifyWrites, opVars, alerts, ghostVars, timerVars, statsVars, formVars, penaltyVars, noteVars, idpName, idOrder, chartFilter, completedAt, calVars>>
  /\ ChartMemo

\* Where the confirmation dialog is rendered.  App.js: at the top of the page,
\* outside the {user && ...} block.  activeTimers: in the logged-in view.
\* runningTimers: inside the admin panel, itself rendered for the privileged
\* e-mail only.
DialogAlways ==
  /\ Idle
  /\ ~loading
  /\ variant # "App" => user # NoUser
  /\ variant = "runningTimers" => Email(user) = ADMIN_EMAIL

DialogVisible ==
  /\ Idle
  /\ ~loading
  /\ showConfirm
  /\ variant # "App" => user # NoUser
  /\ variant = "runningTimers" => Email(user) = ADMIN_EMAIL

\* The dialog's Cancel button.
CancelReset ==
  /\ DialogVisible
  /\ showConfirm' = FALSE
  /\ UNCHANGED <<variant, clock, authVars, error, crashed, storeVars, tasks, tasksSub, snapPending, notifyWrites, opVars, alerts, ghostVars, timerVars, statsVars, formVars, penaltyVars, noteVars, idpName, idOrder, chartFilter, completedAt, calVars>>
  /\ ChartMemo

\* What handleResetData checks before it touches the store.
ResetAllowed(v, u) == u # NoUser /\ (v = "activeTimers" => Email(u) = ADMIN_EMAIL)

\* The text the catch block of the reset handler displays for a failure of
\* the given cause; err.message is represented by the cause's code.
ResetMessage(v, cause) ==
  IF v = "App" THEN "Failed to reset data."
  ELSE IF v = "activeTimers" THEN "Failed to reset data. Error: " \o cause
  ELSE IF cause \in {"permission-denied", "failed-precondition"}
       THEN "Failed to reset data. Error: Missing or insufficient permissions. Please update your Firestore security rules."
       ELSE "Failed to reset data: " \o cause

\* The dialog's confirm button: handleResetData up to await getDocs(tasks).
handleResetData ==
  /\ DialogVisible
  /\ nResets < MaxResets
  /\ nResets' = nResets + 1
  /\ IF ResetAllowed(variant, user)
     THEN /\ resets' = Append(resets, [uid |-> user, phase |-> "read", seen |-> {}, daily |-> FALSE, history |-> 0])
          /\ error' = IF variant = "activeTimers" THEN "" ELSE error
          /\ loading' = IF variant = "activeTimers" THEN TRUE ELSE loading
          /\ resetError' = IF variant = "runningTimers" THEN "" ELSE resetError
     ELSE /\ error' = IF variant = "activeTimers" THEN "You are not authorized to perform this action." ELSE error
          /\ UNCHANGED <<resets, loading, resetError>>
  /\ UNCHANGED <<variant, clock, idp, authCbs, user, fxPending, crashed, storeVars, tasks, tasksSub, snapPending, notifyWrites, completes, nCompletes, showConfirm, alerts, ghostVars, timerVars, statsVars, formVars, penaltyVars, resetFail, idpName, idOrder, chartFilter, completedAt, calVars>>
  /\ ChartMemo

\* getDocs(tasks) is served: the documents the batch will delete.
ResetRead(k) ==
  /\ Idle
  /\ k \in 1..Len(resets)
  /\ resets[k].phase = "read"
  /\ resets' = [resets EXCEPT ![k].phase = "commit", ![k].seen = {i \in TaskIds : taskDocs[i].exists /\ taskDocs[i].owner = resets[k].uid},
                              ![k].daily = dailyDocs[resets[k].uid].exists, ![k].history = pushupHistory[resets[k].uid]]
  /\ UNCHANGED <<variant, clock, authVars, error, crashed, storeVars, tasks, tasksSub, snapPending, notifyWrites, completes, nCompletes, nResets, showConfirm, alerts, ghostVars, timerVars, statsVars, formVars, penaltyVars, noteVars, idpName, idOrder, chartFilter, completedAt, calVars>>
  /\ ChartMemo

\* The store after the reset batch of op: the documents it read are deleted.
DeleteSeen(op, docs) == [i \in TaskIds |-> IF i \in op.seen THEN NoTask ELSE docs[i]]

\* batch.commit(): deletes plus the update of the stats document; the batch
\* fails as a whole when refused or when the stats document is missing.  Then
\* the handler's local state changes.
ResetCommit(k, ok) ==
  /\ Idle
  /\ k \in 1..Len(resets)
  /\ resets[k].phase = "commit"
  /\ resets' = RemoveAt(resets, k)
  /\ LET op == resets[k] IN
     IF ok /\ statsDocs[op.uid].exists
     THEN /\ taskDocs' = DeleteSeen(op, taskDocs)
          /\ statsDocs' = [statsDocs EXCEPT ![op.uid] = [@ EXCEPT !.tasksCompleted = 0, !.totalHours = 0, !.pushups = IF variant = "App" THEN @ ELSE 0,
                                                               !.entries = {}, !.lastReset = IF variant = "runningTimers" THEN clock ELSE @]]
          /\ completedAt' = [i \in TaskIds |-> IF i \in op.seen \/ (variant = "activeTimers" /\ i \in statsDocs[op.uid].entries) THEN NoInstant ELSE completedAt[i]]
          /\ dailyDocs' = IF variant # "runningTimers" /\ op.daily THEN [dailyDocs EXCEPT ![op.uid] = NoDaily] ELSE dailyDocs
          /\ pushupHistory' = IF variant = "App" THEN [pushupHistory EXCEPT ![op.uid] = @ - op.history] ELSE pushupHistory
          /\ dailyPushups' = DailyStart
          /\ resetLog' = Append(resetLog, [uid |-> op.uid, exposed |-> user])
          /\ showConfirm' = FALSE
          /\ error' = IF variant = "App" THEN "" ELSE error
          /\ tasks' = IF variant = "activeTimers" THEN [i \in TaskIds |-> NoTask] ELSE tasks
          /\ snapPending' = (snapPending \/ (tasksSub = op.uid /\ op.seen # {}))
          /\ timers' = IF variant = "App" THEN timers ELSE [i \in TaskIds |-> NoTimer]
          /\ UNCHANGED noteVars
     ELSE /\ \E cause \in (IF ok THEN {"not-found"} ELSE Causes) :
               /\ resetFail' = cause
               /\ error' = IF variant = "runningTimers" THEN error ELSE ResetMessage(variant, cause)
               /\ resetError' = IF variant = "runningTimers" THEN ResetMessage(variant, cause) ELSE resetError
          /\ UNCHANGED <<taskDocs, statsDocs, dailyDocs, pushupHistory, dailyPushups, resetLog, showConfirm, tasks, snapPending, timers, completedAt>>
  /\ loading' = IF variant = "activeTimers" THEN FALSE ELSE loading
  /\ UNCHANGED <<variant, clock, idp, authCbs, user, fxPending, crashed, nextId, tasksSub, notifyWrites, completes, nCompletes, nResets, alerts, marks, credits, stopwatch, stopLog, statsVars, formVars, penalties, dailyPending, pushupPenaltyChecked, nPenalty, idpName, idOrder, chartFilter, calVars>>
  /\ ChartMemo

\* Principals of the sessions below that need one account only.
Solo == {"admin", NoUser}

\* Completion sessions of one principal: sign-in callbacks and completions
\* overlap freely, every completion write may fail; the clock stands still.
NextComplete ==
  \/ \E u \in Solo : AuthStateChanged(u)
  \/ \E k \in 1..MaxCbs : AuthRead(k)
  \/ \E k \in 1..MaxCbs : AuthCreate(k)
  \/ RunEffects
  \/ DeliverTasks
  \/ \E h \in HoursInputs : handleAddTask(0, h, TRUE)
  \/ \E i \in TaskIds : CompleteInvoke(i)
  \/ \E k \in 1..MaxOps : CompleteRead(k)
  \/ \E k \in 1..MaxOps, ok \in BOOLEAN : CommitBatch(k, ok)
  \/ \E k \in 1..MaxOps, ok \in BOOLEAN : UpdateTaskDoc(k, ok)
  \/ \E k \in 1..MaxOps, ok \in BOOLEAN : UpdateStatsDoc(k, ok)

SpecComplete == Init /\ [][NextComplete]_vars

\* Reset sessions: both accounts sign in and out (one callback at a time),
\* tasks are added, the dialog is opened, cancelled and confirmed.
NextReset ==
  \/ \E u \in Users \cup {NoUser} : authCbs = <<>> /\ AuthStateChanged(u)
  \/ \E k \in 1..MaxCbs : AuthRead(k)
  \/ \E k \in 1..MaxCbs : AuthCreate(k)
  \/ RunEffects
  \/ DeliverTasks
  \/ \E s \in StartTimes : handleAddTask(s, 1, TRUE)
  \/ OpenResetDialog
  \/ CancelReset
  \/ handleResetData
  \/ \E k \in 1..MaxResets : ResetRead(k)
  \/ \E k \in 1..MaxResets, ok \in BOOLEAN : ResetCommit(k, ok)

SpecReset == Init /\ [][NextReset]_vars

\* The derivation layer at work: one principal comes and goes (one callback at
\* a time), tasks are added, start, ring and are completed one at a time, the
\* clock runs, and the notified write may fail.
NextDerive ==
  \/ \E u \in Solo : authCbs = <<>> /\ AuthStateChanged(u)
  \/ \E k \in 1..MaxCbs : AuthRead(k)
  \/ \E k \in 1..MaxCbs : AuthCreate(k)
  \/ RunEffects
  \/ DeliverTasks
  \/ Tick
  \/ \E w \in notifyWrites, ok \in BOOLEAN : ApplyNotify(w, ok)
  \/ \E s \in StartTimes : handleAddTask(s, 1, TRUE)
  \/ \E i \in TaskIds : completes = <<>> /\ CompleteInvoke(i)
  \/ \E k \in 1..MaxOps : CompleteRead(k)
  \/ \E k \in 1..MaxOps : CommitBatch(k, TRUE)
  \/ \E k \in 1..MaxOps : UpdateTaskDoc(k, TRUE)
  \/ \E k \in 1..MaxOps : UpdateStatsDoc(k, TRUE)

SpecDerive == Init /\ [][NextDerive]_vars

\* Timer sessions: one principal comes and goes, adds tasks that start at
\* once, starts and stops their timers while seconds pass; the flush of a
\* stopped timer may be refused.
NextTimer ==
  \/ \E u \in Solo : authCbs = <<>> /\ AuthStateChanged(u)
  \/ \E k \in 1..MaxCbs : AuthRead(k)
  \/ \E k \in 1..MaxCbs : AuthCreate(k)
  \/ RunEffects
  \/ DeliverTasks
  \/ Tick
  \/ handleAddTask(0, 1, TRUE)
  \/ \E i \in TaskIds : Start(i)
  \/ \E i \in TaskIds : TimerPeriod(i)
  \/ \E i \in TaskIds, ok \in BOOLEAN : Stop(i, ok)
  \/ logOut
  \/ handleSignOut

SpecTimer == Init /\ [][NextTimer]_vars

\* Sessions of two accounts: each signs in and out (one callback at a time,
\* also one account straight after the other), tasks are added, snapshots
\* are delivered, and a subscription may end with an error.
NextSession ==
  \/ \E u \in Users \cup {NoUser} : authCbs = <<>> /\ AuthStateChanged(u)
  \/ \E k \in 1..MaxCbs : AuthRead(k)
  \/ \E k \in 1..MaxCbs : AuthCreate(k)
  \/ RunEffects
  \/ DeliverTasks
  \/ DeliverStats
  \/ \E kind \in {"tasks", "stats"} : SubscriptionError(kind)
  \/ \E s \in StartTimes : handleAddTask(s, 1, TRUE)
  \/ Tick
  \/ handleSignOut

SpecSession == Init /\ [][NextSession]_vars

\* Form sessions: one principal comes and goes, types into the Add task form
\* (no start, an unreadable one, or the instant 0) and submits it; addDoc may
\* be refused.
NextForm ==
  \/ \E u \in Solo : authCbs = <<>> /\ AuthStateChanged(u)
  \/ \E k \in 1..MaxCbs : AuthRead(k)
  \/ \E k \in 1..MaxCbs : AuthCreate(k)
  \/ RunEffects
  \/ DeliverTasks
  \/ \E f \in Forms : f.start \in {"", "x", "0"} /\ TypeForm(f)
  \/ \E ok \in BOOLEAN : SubmitAddTask(ok)

SpecForm == Init /\ [][NextForm]_vars

\* Penalty sessions: one principal comes and goes and adds penalties whose
\* reads and writes overlap; the store accepts every write.
NextPenalty ==
  \/ \E u \in Solo : authCbs = <<>> /\ AuthStateChanged(u)
  \/ \E k \in 1..MaxCbs : AuthRead(k)
  \/ \E k \in 1..MaxCbs : AuthCreate(k)
  \/ RunEffects
  \/ DeliverDaily
  \/ DeliverStats
  \/ handleAddPenalty
  \/ \E k \in 1..MaxOps : PenaltyDaily(k, TRUE)
  \/ \E k \in 1..MaxOps : PenaltyRead(k)
  \/ \E k \in 1..MaxOps : PenaltyWrite(k, TRUE)
  \/ \E k \in 1..MaxOps : PenaltyHistory(k, TRUE)
  \/ \E k \in 1..MaxOps : PenaltyReenable(k)

SpecPenalty == Init /\ [][NextPenalty]_vars

\* Sign-in sessions: both accounts come and go with callbacks that overlap,
\* the reads and creations of the record may fail, and display names change.
NextAuth ==
  \/ \E u \in Users \cup {NoUser} : AuthStateChanged(u)
  \/ \E k \in 1..MaxCbs : AuthRead(k)
  \/ \E k \in 1..MaxCbs : AuthCreate(k)
  \/ \E k \in 1..MaxCbs : AuthFail(k)
  \/ RunEffects
  \/ \E u \in Users, n \in Names : RenameAccount(u, n)

SpecAuth == Init /\ [][NextAuth]_vars

\* The same sessions where the store answers every request in the end and
\* the effects of a render do run.
SpecAuthLive == SpecAuth /\ WF_vars(\E k \in 1..MaxCbs : AuthRead(k) \/ AuthCreate(k) \/ AuthFail(k)) /\ WF_vars(RunEffects)

\* ---------------------------------------------------------------- claims
\* The tasks of principal u the store holds.
OwnedTasks(u, docs) == {i \in TaskIds : docs[i].exists /\ docs[i].owner = u}

\* The tasks of principal u the store holds as completed.
CompletedTasks(u) == {i \in OwnedTasks(u, taskDocs) : IsCompleted(variant, taskDocs[i])}

\* C1: however often Complete task is invoked on one task id, also before the
\* snapshot of the first completion has arrived, the owner's tasksCompleted
\* rises by 1 for that task: the counter never exceeds the number of the
\* owner's completed tasks.
C1_IncrementOnce == \A u \in Users : statsDocs[u].tasksCompleted <= Cardinality(CompletedTasks(u))

\* C2: without Reset all data, tasksCompleted and totalHours of every principal
\* never decrease from one store state to the next.
C2_Monotonic == [][\A u \in Users : statsDocs'[u].tasksCompleted >= statsDocs[u].tasksCompleted /\ statsDocs'[u].totalHours >= statsDocs[u].totalHours]_vars

\* C3: once no completion is under way, every completion mark written on a
\* task has its counters increment and every increment its mark, whichever
\* single write failed.
C3_AllOrNothing == completes = <<>> => \A i \in TaskIds : marks[i] = credits[i]

\* C4: every committed reset batch was committed while the exposed principal
\* was one whose e-mail is the privileged one.
C4_PrivilegedOnly == \A k \in 1..Len(resetLog) : resetLog[k].exposed # NoUser /\ Email(resetLog[k].exposed) = ADMIN_EMAIL

\* C5: in the store state right after a reset batch commits, its principal owns
\* no task and has tasksCompleted = 0 and totalHours = 0.
C5_ResetEmpties == [][Len(resetLog') > Len(resetLog) => LET u == resetLog'[Len(resetLog')].uid IN OwnedTasks(u, taskDocs') = {} /\ statsDocs'[u].tasksCompleted = 0 /\ statsDocs'[u].totalHours = 0]_vars

\* The names of the three groups.
GroupNames == {"completed", "active", "upcoming"}

\* In how many of the groups g task i is.
GroupCount(g, i) == Cardinality({n \in GroupNames : i \in g[n]})

\* The rule of the three groups: completed iff the flag is set, else active
\* iff start <= now, else upcoming; exactly one of the three.
PartitionRule(g, ts, now) ==
  \A i \in Cached(ts) : HasStart(ts[i]) =>
    /\ GroupCount(g, i) = 1
    /\ i \in g.completed <=> ts[i].completed
    /\ i \in g.active <=> (~ts[i].completed /\ ts[i].startTime <= now)
    /\ i \in g.upcoming <=> (~ts[i].completed /\ ts[i].startTime > now)

\* C6 as stated: in the runningTimers version every cached task with a start
\* is in exactly one group by the rule, whatever else the state is.
C6_Original == variant = "runningTimers" => PartitionRule(categorizedTasks(user, tasks, clock), tasks, clock)

\* C6: in the runningTimers version, while a principal is exposed, every
\* cached task with a start is in exactly one of completed, active, upcoming,
\* by the rule on (completed, start, now).
C6_Partition == (variant = "runningTimers" /\ user # NoUser) => PartitionRule(categorizedTasks(user, tasks, clock), tasks, clock)

\* A principal is exposed and the three groups are all in use, or all but one.
C6_Witness ==
  /\ variant = "runningTimers"
  /\ user # NoUser
  /\ categorizedTasks(user, tasks, clock).completed # {}
  /\ categorizedTasks(user, tasks, clock).active # {}

\* C7 as stated: in App.js and in the activeTimers version every cached task
\* with a start is in exactly one displayed group, whatever its day.
C7_Original == variant \in {"App", "activeTimers"} => \A i \in Cached(tasks) : HasStart(tasks[i]) => GroupCount(Groups(variant, user, tasks, clock), i) = 1

\* C7: in App.js and in the activeTimers version every cached task with a
\* start is in at most one displayed group, and in exactly one when its start
\* falls on the current day.
C7_TodayExactlyOne == variant \in {"App", "activeTimers"} => \A i \in Cached(tasks) : HasStart(tasks[i]) => (GroupCount(Groups(variant, user, tasks, clock), i) <= 1 /\ (todayFilter(tasks[i], clock) => GroupCount(Groups(variant, user, tasks, clock), i) = 1))

\* One task of today is displayed next to one of another day that is not.
C7_Witness ==
  /\ variant \in {"App", "activeTimers"}
  /\ \E i, j \in Cached(tasks) :
       /\ todayFilter(tasks[i], clock)
       /\ GroupCount(Groups(variant, user, tasks, clock), i) = 1
       /\ ~todayFilter(tasks[j], clock)
       /\ GroupCount(Groups(variant, user, tasks, clock), j) = 0

C9_AtMostOnce == variant \in {"activeTimers", "runningTimers"} => \A i \in TaskIds : alerts[i] <= 1

C11_StopPersistsTicks == [][(variant = "runningTimers") => (\A i \in TaskIds : ((stopLog'[i].count # stopLog[i].count) => (taskDocs'[i].elapsed \in {taskDocs[i].elapsed, stopwatch[i].base + stopwatch[i].periods})))]_vars

\* C12: in every version, a Start of a task whose timer was stopped before
\* begins with the elapsed seconds that timer held at its last Stop.
C12_ResumesFromStop == [][\A i \in TaskIds : ((~timers[i].on /\ timers'[i].on /\ stopLog[i].count > 0) => (timers'[i].elapsed = stopLog[i].elapsed))]_vars

\* C13: in every version, Stop ends the ticking of the task's timer and
\* leaves the timer's elapsed seconds on the task document (unless the store
\* refuses the write, which only the runningTimers version issues).
C13_StopPersists == [][\A i \in TaskIds : ((stopLog'[i].count # stopLog[i].count) => (~timers'[i].ticking /\ (taskDocs'[i].elapsed = timers[i].elapsed \/ (variant = "runningTimers" /\ taskDocs' = taskDocs))))]_vars

\* C14: in every version, while no principal is exposed no timer entry is
\* left and none is ticking.
C14_NoTimersSignedOut == user = NoUser => \A i \in TaskIds : ~timers[i].present /\ ~timers[i].ticking

\* C15: in every version, once no principal is exposed, loading has ended
\* and the effects have run, no subscription is open and the cached task list
\* and the cached stats list are empty.
C15_ClosedWhenSignedOut == (user = NoUser /\ ~loading /\ ~fxPending) => (tasksSub = NoUser /\ ~statsSub /\ Cached(tasks) = {} /\ allUserStats = [u \in Users |-> NoStats])

\* C16: in every version, once a principal is exposed and the effects have
\* run, every cached task belongs to that principal.
C16_CacheOfPrincipal == (user # NoUser /\ ~fxPending) => \A i \in Cached(tasks) : tasks[i].owner = user

C19_CreatesOneTask == [][(addLog'.n # addLog.n /\ addLog'.result = "added") => (\E i \in TaskIds : /\ ~taskDocs[i].exists /\ taskDocs'[i].exists /\ taskDocs'[i].owner = user /\ user # NoUser /\ ~IsCompleted(variant, taskDocs'[i]) /\ ~taskDocs'[i].notified /\ taskDocs'[i].elapsed = 0 /\ \A j \in TaskIds \ {i} : taskDocs'[j] = taskDocs[j])]_vars

\* A typed form was submitted, accepted by the store, and its task is there.
C19_Witness == addLog.result = "added" /\ form = ClearedForm /\ \E i \in TaskIds : taskDocs[i].exists /\ taskDocs[i].owner = user

\* C20: every task document has estimated hours above 0: a submission whose
\* hours are not above 0 never reaches the store.
C20_PositiveHours == \A i \in TaskIds : taskDocs[i].exists => taskDocs[i].estimatedHours > 0

\* A complete form with hours not above 0 was submitted and held back, while
\* an earlier submission had created a task.
C20_Witness == addLog.result = "blocked" /\ form.title /\ form.start = "0" /\ form.hours \in {"0", "-1"} /\ \E i \in TaskIds : taskDocs[i].exists

\* C21: in every version, once no Add penalty is in flight, the penalty
\* counter of each principal's public record stands at 5 for each Add
\* penalty the principal invoked (the store having accepted every write).
C21_FivePerPenalty == penalties = <<>> => \A u \in Users : PenaltyCounter(variant, u) = PenaltyUnit * nPenalty[u]

\* C22: in every version, an exposed principal has its record in the store.
C22_RecordBehindPrincipal == user # NoUser => statsDocs[user].exists

\* A principal is exposed after its callback found the record absent and
\* created it, while the other account has none.
C22_Witness == user = "friend" /\ idp = "friend" /\ authCbs = <<>> /\ statsDocs["friend"].exists /\ ~statsDocs["admin"].exists

\* C23: when a principal whose record already exists becomes the exposed
\* one, the record carries the account's current display name afterwards and
\* its counters are as before.
C23_NameRefreshed == [][\A u \in Users : ((user' = u /\ user # u /\ statsDocs[u].exists) => (statsDocs'[u].displayName = idpName[u] /\ statsDocs'[u].tasksCompleted = statsDocs[u].tasksCompleted /\ statsDocs'[u].totalHours = statsDocs[u].totalHours /\ statsDocs'[u].pushups = statsDocs[u].pushups))]_vars

\* C24: once the identity provider's first callback has arrived, loading
\* ends, whatever becomes of the read and the creation of the record.
C24_LoadingEnds == (idp # "unknown") ~> ~loading

\* ------------------------------------------------------------------ C25
\* The message on screen for a reset failure.
ResetShown == IF variant = "runningTimers" THEN resetError ELSE error

\* C25: in every variant a reset whose batch fails leaves the tasks and the
\* counters in the store unchanged, and when the failure is not
\* permission-denied the message it displays differs from the one displayed
\* for permission-denied.
C25_DeniedDistinct ==
  [][(Len(resets') < Len(resets) /\ resetLog' = resetLog) =>
       (/\ taskDocs' = taskDocs
        /\ statsDocs' = statsDocs
        /\ ((resetFail' # "permission-denied") => (ResetShown' # ResetMessage(variant, "permission-denied"))))]_vars

\* ------------------------------------------------------------------ C26
\* C26: in every variant a reset operation is started only by the confirm
\* button of an open confirmation dialog, a reset write is issued only by such
\* an operation, and a step that closes the dialog without a reset write
\* (Cancel) changes nothing in the store and starts no operation.
C26_ConfirmFirst ==
  [][/\ ((Len(resets') > Len(resets)) => (showConfirm /\ nResets' = nResets + 1))
     /\ ((resetLog' # resetLog) => (Len(resets') < Len(resets) /\ Len(resetLog') <= nResets))
     /\ ((showConfirm /\ ~showConfirm' /\ resetLog' = resetLog) =>
           (/\ storeVars' = storeVars
            /\ dailyDocs' = dailyDocs
            /\ pushupHistory' = pushupHistory
            /\ notifyWrites' = notifyWrites
            /\ opVars' = opVars))]_vars

\* A confirmed reset has written and closed the dialog.
C26_Witness == Len(resetLog) = 1 /\ nResets = 1 /\ resets = <<>> /\ ~showConfirm /\ user # NoUser

\* ----------------------------------------------------------- group lists
\* The orders the auto-generated document ids of the tasks can sort in.
Orders == {o \in [TaskIds -> TaskIds] : \A i, j \in TaskIds : i # j => o[i] # o[j]}

\* Array.prototype.sort with (a, b) => a.startTime - b.startTime: a stable
\* sort, here by insertion.
InsertByStart(s, i, ts) ==
  SelectSeq(s, LAMBDA j : ts[j].startTime <= ts[i].startTime) \o <<i>> \o SelectSeq(s, LAMBDA j : ts[j].startTime > ts[i].startTime)

RECURSIVE SortByStart(_, _)
SortByStart(s, ts) == IF s = <<>> THEN <<>> ELSE InsertByStart(SortByStart(SubSeq(s, 1, Len(s) - 1), ts), s[Len(s)], ts)

\* The list one group is rendered as.  The derivation pushes the tasks in the
\* order of the cached array, which is the snapshot's; App.js (TaskSection)
\* and activeTimers (at each of the three lists) sort before they map,
\* runningTimers (TaskSection) maps the array as it is.
Listed(v, S, ts) ==
  LET pushed == SelectSeq(idOrder, LAMBDA i : i \in S) IN
  IF v = "runningTimers" THEN pushed ELSE SortByStart(pushed, ts)

Displayed(v, u, ts, currentTime) ==
  LET g == Groups(v, u, ts, currentTime) IN
  [completed |-> Listed(v, g.completed, ts), active |-> Listed(v, g.active, ts), upcoming |-> Listed(v, g.upcoming, ts)]

Ascending(s, ts) == \A a, b \in 1..Len(s) : a < b => ts[s[a]].startTime <= ts[s[b]].startTime

\* The task documents a collection can hold: those the form and a completion
\* write, and documents written by another client with no startTime or with
\* one that is not a Timestamp.
ViewDoc(v, s, c) == IF c THEN MarkCompleted(v, NewTask(v, "admin", s, 1)) ELSE NewTask(v, "admin", s, 1)

ViewDocs(v) == {NoTask} \cup {ViewDoc(v, s, c) : s \in StartTimes \cup {NoStart, BadStart}, c \in BOOLEAN}

\* The admin is signed in and subscribed; the first snapshot is owed.
InitView ==
  /\ variant \in Variants
  /\ clock = 0
  /\ idp = "admin"
  /\ authCbs = <<>>
  /\ user = "admin"
  /\ loading = FALSE
  /\ error = ""
  /\ fxPending = FALSE
  /\ crashed = FALSE
  /\ statsDocs = [u \in Users |-> IF u = "admin" THEN [NoStats EXCEPT !.exists = TRUE, !.displayName = "a"] ELSE NoStats]
  /\ taskDocs \in [TaskIds -> ViewDocs(variant)]
  /\ nextId = MaxTasks + 1
  /\ tasks = [i \in TaskIds |-> NoTask]
  /\ tasksSub = "admin"
  /\ snapPending = TRUE
  /\ notifyWrites = {}
  /\ completes = <<>>
  /\ resets = <<>>
  /\ showConfirm = FALSE
  /\ alerts = [i \in TaskIds |-> 0]
  /\ marks = [i \in TaskIds |-> 0]
  /\ credits = [i \in TaskIds |-> 0]
  /\ resetLog = <<>>
  /\ nResets = 0
  /\ nCompletes = 0
  /\ timers = [i \in TaskIds |-> NoTimer]
  /\ stopwatch = [i \in TaskIds |-> [base |-> 0, periods |-> 0]]
  /\ stopLog = [i \in TaskIds |-> [count |-> 0, elapsed |-> 0]]
  /\ allUserStats = [u \in Users |-> NoStats]
  /\ statsSub = TRUE
  /\ form = ClearedForm
  /\ addLog = [n |-> 0, result |-> "none"]
  /\ penalties = <<>>
  /\ dailyPushups = DailyStart
  /\ dailyDocs = [u \in Users |-> NoDaily]
  /\ pushupHistory = [u \in Users |-> 0]
  /\ dailyPending = DailyOwed(variant, "admin", FALSE)
  /\ pushupPenaltyChecked = FALSE
  /\ nPenalty = [u \in Users |-> 0]
  /\ resetError = ""
  /\ resetFail = "none"
  /\ idpName = [u \in Users |-> "a"]
  /\ idOrder \in Orders
  /\ calNow = 0
  /\ chartFilter = "today"
  /\ chartToday = 0
  /\ completedAt = [i \in TaskIds |-> NoInstant]
  /\ calOut = NoWindows

\* Snapshots arrive and the clock runs over a collection of any content.
NextView ==
  \/ DeliverTasks
  \/ Tick

SpecView == InitView /\ [][NextView]_vars

\* ------------------------------------------------------------------ C27
\* C27: in every variant, each of the three displayed groups lists its tasks
\* in ascending order of scheduled start, whatever the order of the snapshot.
C27_GroupsAscending ==
  (~crashed /\ ~DerivationThrows(variant, tasks)) =>
    \A g \in {"completed", "active", "upcoming"} : Ascending(Displayed(variant, user, tasks, clock)[g], tasks)

\* ------------------------------------------------------------------ C28
\* C28: in every variant, a cached task whose scheduled start is missing or
\* is not a Timestamp is in none of the three groups, and the derivation and
\* the alert pass go through without an exception.
C28_MalformedSkipped ==
  \A i \in Cached(tasks) : ~HasStart(tasks[i]) =>
    /\ ~crashed
    /\ ~DerivationThrows(variant, tasks)
    /\ TickThrowsAt(tasks) = {}
    /\ LET g == Groups(variant, user, tasks, clock) IN i \notin g.completed \cup g.active \cup g.upcoming

\* ------------------------------------------------------------------ chart
\* A period button of the chart: setChartFilter(f) / setFilterType(f).
SelectFilter(f) ==
  /\ LoggedInView
  /\ f # chartFilter
  /\ chartFilter' = f
  /\ UNCHANGED <<variant, clock, authVars, error, crashed, storeVars, tasks, tasksSub, snapPending, notifyWrites, opVars, showConfirm, alerts, ghostVars, timerVars, statsVars, formVars, penaltyVars, noteVars, idpName, idOrder, completedAt, calVars>>
  /\ ChartMemo

\* The completion records the cached chart counts for the principal u under
\* 'today'.  App.js filters the cached tasks on completedAt >= today,
\* runningTimers the cached completed tasks on completedAt >= startOfToday,
\* activeTimers the entries of the cached record's tasks array.
TodayTasks(v, u) ==
  CASE v = "App" -> {i \in Cached(tasks) : IsCompleted(v, tasks[i]) /\ completedAt[i] # NoInstant /\ completedAt[i] >= chartToday}
    [] v = "activeTimers" -> {i \in allUserStats[u].entries : completedAt[i] >= chartToday}
    [] OTHER -> {i \in Cached(tasks) : tasks[i].completed /\ completedAt[i] # NoInstant /\ completedAt[i] >= chartToday}

\* The completion records counted under 'all' where the chart counts
\* records: every entry in activeTimers; in runningTimers the cached completed
\* tasks, those since lastReset when the cached record has one.
AllTasks(v, u) ==
  IF v = "activeTimers" THEN allUserStats[u].entries
  ELSE IF allUserStats[u].lastReset # NoInstant
       THEN {i \in Cached(tasks) : tasks[i].completed /\ completedAt[i] # NoInstant /\ completedAt[i] >= allUserStats[u].lastReset}
       ELSE {i \in Cached(tasks) : tasks[i].completed}

\* The number of tasks the chart shows for u under 'all': App.js shows the
\* counter of the cached record.
AllFigure(v, u) == IF v = "App" THEN allUserStats[u].tasksCompleted ELSE Cardinality(AllTasks(v, u))

\* The completions on record for u in the store.
Recorded(v, u) ==
  IF v = "activeTimers" THEN statsDocs[u].entries
  ELSE {i \in TaskIds : taskDocs[i].exists /\ taskDocs[i].owner = u /\ IsCompleted(v, taskDocs[i]) /\ completedAt[i] # NoInstant}

\* The caches hold what the store holds and no completion is under way.
ChartSynced == allUserStats = statsDocs /\ tasks = CollectionOf(user, taskDocs) /\ completes = <<>>

\* One principal completes tasks one at a time while the clock runs, and
\* looks at the chart under 'today' and under 'all'.
NextChart ==
  \/ \E u \in Solo : authCbs = <<>> /\ AuthStateChanged(u)
  \/ \E k \in 1..MaxCbs : AuthRead(k)
  \/ \E k \in 1..MaxCbs : AuthCreate(k)
  \/ RunEffects
  \/ DeliverTasks
  \/ DeliverStats
  \/ Tick
  \/ handleAddTask(0, 1, TRUE)
  \/ \E i \in TaskIds : completes = <<>> /\ CompleteInvoke(i)
  \/ \E k \in 1..MaxOps : CompleteRead(k)
  \/ \E k \in 1..MaxOps : CommitBatch(k, TRUE)
  \/ \E k \in 1..MaxOps : UpdateTaskDoc(k, TRUE)
  \/ \E k \in 1..MaxOps : UpdateStatsDoc(k, TRUE)
  \/ \E f \in {"today", "all"} : SelectFilter(f)

SpecChart == Init /\ [][NextChart]_vars

\* ------------------------------------------------------------------ C29
\* C29: for the signed-in principal in every variant, a completion recorded
\* before today's local midnight is not counted by the chart under 'today',
\* and under 'all' (caches up to date) it is counted unless it precedes the
\* record's last reset.
C29_TodayNotYesterday ==
  (LoggedInView /\ statsSub) =>
    \A i \in Recorded(variant, user) : (completedAt[i] < getStartOfDate(clock)) =>
      /\ (chartFilter = "today") => (i \notin TodayTasks(variant, user))
      /\ (chartFilter = "all" /\ ChartSynced) =>
           IF variant = "App" THEN AllFigure(variant, user) >= Cardinality(Recorded(variant, user))
           ELSE (i \in AllTasks(variant, user) \/ completedAt[i] < allUserStats[user].lastReset)

\* -------------------------------------------------------------- calendar
\* Instants are counted from midnight of day 0, DayLen to the day; months
\* have MonthLen days each; day 0 is the first of a month and falls on the
\* weekday EpochDay (0 is Sunday).
Instants == 0..(MaxDay * DayLen + DayLen - 1)

DayOf(t) == t \div DayLen

\* Date.prototype.getDay, getDate, getMonth.
getDay(t) == (DayOf(t) + EpochDay) % WeekLen

getDate(t) == (DayOf(t) % MonthLen) + 1

getMonth(t) == DayOf(t) \div MonthLen

\* Date.prototype.setDate(n): the day of the month becomes n, rolling into
\* the neighbouring month when n is outside the month; the time of day stays.
setDate(t, n) == t + (n - getDate(t)) * DayLen

\* new Date(year, month, 1): midnight of the first day of month m.
FirstOf(m) == m * MonthLen * DayLen

\* activeTimers filteredChartData: now.setDate(...) moves the one Date object
\* now to the most recent Sunday, and the month window is then taken from
\* now.getFullYear() and now.getMonth() of the moved object.
filterStartDates(now) ==
  LET today == getStartOfDate(now)
      moved == setDate(now, getDate(now) - getDay(now))
      startOfWeek == getStartOfDate(moved)
      startOfMonth == getStartOfDate(FirstOf(getMonth(moved)))
  IN [done |-> TRUE, today |-> today, week |-> startOfWeek, month |-> startOfMonth]

\* Any current date, with the windows not computed yet.
InitCalendar ==
  /\ InitProgram
  /\ variant = "activeTimers"
  /\ calNow \in Instants

ComputeWindows ==
  /\ variant = "activeTimers"
  /\ ~calOut.done
  /\ calOut' = filterStartDates(calNow)
  /\ UNCHANGED <<variant, clock, authVars, error, crashed, storeVars, tasks, tasksSub, snapPending, notifyWrites, opVars, showConfirm, alerts, ghostVars, timerVars, statsVars, formVars, penaltyVars, noteVars, idpName, idOrder, chartFilter, completedAt, calNow>>
  /\ ChartMemo

SpecCalendar == InitCalendar /\ [][ComputeWindows]_vars

\* ------------------------------------------------------------------ C30
\* C30: in the activeTimers variant, for every current date the 'week'
\* window starts at midnight of the most recent Sunday and the 'month' window
\* at midnight of the first day of the current month.
C30_WindowStarts ==
  calOut.done =>
    /\ calOut.week = getStartOfDate(calNow) - getDay(calNow) * DayLen
    /\ calOut.month = FirstOf(getMonth(calNow))

\* ------------------------------------------------------------ other rows
\* The records the chart handles as another principal's when the period is
\* not 'all'.  App.js takes the records whose displayName differs from
\* user.displayName and shows their totals under "<name> (All Time)";
\* runningTimers takes the records whose userId differs from user.uid and
\* shows zeros for them.  user.displayName is the name the identity provider
\* delivered with the principal.
OtherRows(v, u) ==
  IF v = "App" THEN {w \in Users : allUserStats[w].exists /\ allUserStats[w].displayName # idpName[u]}
  ELSE {w \in Users : allUserStats[w].exists /\ w # u}

\* Two accounts come and go (one callback at a time), an account is renamed
\* while it is signed out, and the chart period is chosen.
NextRows ==
  \/ \E u \in Users \cup {NoUser} : authCbs = <<>> /\ AuthStateChanged(u)
  \/ \E k \in 1..MaxCbs : AuthRead(k)
  \/ \E k \in 1..MaxCbs : AuthCreate(k)
  \/ RunEffects
  \/ DeliverStats
  \/ \E u \in Users, n \in Names : idp # u /\ authCbs = <<>> /\ RenameAccount(u, n)
  \/ \E f \in Filters : SelectFilter(f)

SpecRows == Init /\ [][NextRows]_vars

NextFinish ==
  \/ \E u \in Solo : authCbs = <<>> /\ AuthStateChanged(u)
  \/ \E k \in 1..MaxCbs : AuthRead(k)
  \/ \E k \in 1..MaxCbs : AuthCreate(k)
  \/ RunEffects
  \/ DeliverTasks
  \/ nextId = 1 /\ handleAddTask(0, 1, TRUE)
  \/ \E i \in TaskIds : Start(i)
  \/ \E i \in TaskIds : TimerPeriod(i)
  \/ \E i \in TaskIds : completes = <<>> /\ CompleteInvoke(i)
  \/ \E k \in 1..MaxOps : CompleteRead(k)
  \/ \E k \in 1..MaxOps, ok \in BOOLEAN : CommitBatch(k, ok)
  \/ \E k \in 1..MaxOps, ok \in BOOLEAN : UpdateTaskDoc(k, ok)
  \/ \E k \in 1..MaxOps, ok \in BOOLEAN : UpdateStatsDoc(k, ok)

SpecFinish == Init /\ [][NextFinish]_vars

\* ------------------------------------------------------------------ C32
\* C32: in every variant, when the completion write of a task is about to be
\* issued the task's timer is not ticking, and when the completion has ended,
\* with the write applied or refused, no timer entry of the task remains.
C32_TimerHaltedAndGone ==
  [][\A k \in 1..Len(completes) :
       /\ (completes[k].phase = "commit") => ~timers[completes[k].id].ticking
       /\ (completes' = RemoveAt(completes, k)) => ~timers'[completes[k].id].present]_vars

\* ------------------------------------------------------------------ C33
\* C33: in every variant, right after a task snapshot or a stats snapshot is
\* delivered the local cache equals that snapshot, whatever the cache held
\* before.
C33_SnapshotWins ==
  [][/\ ((~fxPending /\ snapPending /\ ~snapPending') => (tasks' = CollectionOf(tasksSub', taskDocs')))
     /\ ((~fxPending /\ allUserStats' # allUserStats) => (allUserStats' = statsDocs'))]_vars

\* App.js: a task rang, which made its cached copy 'active', and a later
\* snapshot has put the store's 'upcoming' back in the cache.
C33_Witness ==
  /\ variant = "App"
  /\ LoggedInView
  /\ ~snapPending
  /\ allUserStats = statsDocs
  /\ \E i \in Cached(tasks) : alerts[i] > 0 /\ tasks[i].status = "upcoming" /\ tasks[i] = taskDocs[i]

\* One account signs in, out and in again with its callbacks overlapping,
\* while the exposed principal adds and completes tasks one at a time.
NextCreate ==
  \/ \E u \in Solo : AuthStateChanged(u)
  \/ \E k \in 1..MaxCbs : AuthRead(k)
  \/ \E k \in 1..MaxCbs : AuthCreate(k)
  \/ RunEffects
  \/ DeliverTasks
  \/ handleAddTask(0, 1, TRUE)
  \/ \E i \in TaskIds : completes = <<>> /\ CompleteInvoke(i)
  \/ \E k \in 1..MaxOps : CompleteRead(k)
  \/ \E k \in 1..MaxOps : CommitBatch(k, TRUE)
  \/ \E k \in 1..MaxOps : UpdateTaskDoc(k, TRUE)
  \/ \E k \in 1..MaxOps : UpdateStatsDoc(k, TRUE)

SpecCreate == Init /\ [][NextCreate]_vars

\* ------------------------------------------------------------------ C34
\* C34: the creation write of a sign-in callback leaves the counters of a
\* StatsRecord that exists already as they are; a second creation of a fresh
\* record gives the record of a single creation.
C34_CreateKeepsCounters ==
  [][\A u \in Users :
       (Len(authCbs') < Len(authCbs) /\ statsDocs[u].exists) =>
         (/\ statsDocs'[u].tasksCompleted = statsDocs[u].tasksCompleted
          /\ statsDocs'[u].totalHours = statsDocs[u].totalHours)]_vars

\* Sign-ins and sign-outs whose callbacks overlap, where the store serves
\* every read and create.
NextOrder ==
  \/ \E u \in Users \cup {NoUser} : AuthStateChanged(u)
  \/ \E k \in 1..MaxCbs : AuthRead(k)
  \/ \E k \in 1..MaxCbs : AuthCreate(k)
  \/ RunEffects

SpecOrder == Init /\ [][NextOrder]_vars

\* ------------------------------------------------------------------ C35
\* C35: once every auth callback has finished, the exposed principal is the
\* one the identity provider delivered last.
C35_LastDeliveredExposed == (authCbs = <<>> /\ idp # "unknown") => user = idp

\* One account, one auth callback at a time; Complete is invoked on tasks
\* while an earlier completion still awaits its read or its write, and the
\* store applies every write.
NextOverlap ==
  \/ \E u \in Solo : authCbs = <<>> /\ AuthStateChanged(u)
  \/ \E k \in 1..MaxCbs : AuthRead(k)
  \/ \E k \in 1..MaxCbs : AuthCreate(k)
  \/ RunEffects
  \/ DeliverTasks
  \/ \E h \in HoursInputs : handleAddTask(0, h, TRUE)
  \/ \E i \in TaskIds : CompleteInvoke(i)
  \/ \E k \in 1..MaxOps : CompleteRead(k)
  \/ \E k \in 1..MaxOps : CommitBatch(k, TRUE)
  \/ \E k \in 1..MaxOps : UpdateTaskDoc(k, TRUE)
  \/ \E k \in 1..MaxOps : UpdateStatsDoc(k, TRUE)

SpecOverlap == Init /\ [][NextOverlap]_vars

\* The hours the completions of the tasks in S credit together.
RECURSIVE HoursOf(_)
HoursOf(S) == IF S = {} THEN 0 ELSE LET i == CHOOSE x \in S : TRUE IN CreditedHours(variant, taskDocs[i]) + HoursOf(S \ {i})

\* The tasks of principal u whose completion has written the counters.
CreditedTasks(u) == {i \in OwnedTasks(u, taskDocs) : credits[i] > 0}

\* ------------------------------------------------------------------ C36
\* C36: once no completion is under way and no task was completed twice, the
\* owner's tasksCompleted is the number of tasks whose completion was applied
\* and totalHours the sum of their credited hours: two overlapping completions
\* of distinct tasks raise them by 2 and by the sum.
C36_NoLostUpdate ==
  \A u \in Users :
    (/\ completes = <<>>
     /\ statsDocs[u].exists
     /\ \A i \in OwnedTasks(u, taskDocs) : credits[i] <= 1) =>
      (/\ statsDocs[u].tasksCompleted = Cardinality(CreditedTasks(u))
       /\ statsDocs[u].totalHours = HoursOf(CreditedTasks(u)))

\* ------------------------------------------------------------------ C37
\* C37: runningTimers, with no write under way and the caches holding what
\* the store holds, the all-time number of completed tasks the chart derives
\* from the task list equals the tasksCompleted counter of the record.
C37_ChartEqualsCounter ==
  (variant = "runningTimers" /\ LoggedInView /\ ChartSynced /\ ~snapPending /\ authCbs = <<>> /\ allUserStats[user].exists) =>
    AllFigure(variant, user) = allUserStats[user].tasksCompleted

C39_NoPassSignedOut ==
  [][variant = "activeTimers" =>
       /\ \A i \in TaskIds : <<NoUser, i>> \notin notifyWrites'
       /\ ((user' # user \/ tasks' # tasks \/ clock' # clock) /\ user' = NoUser /\ ~crashed /\ ~DerivationThrows(variant, tasks')) =>
            Rings(variant, NoUser, tasks', clock') = {}]_vars

\* ------------------------------------------------------------------ Next
Next ==
  \/ \E f \in Filters : SelectFilter(f)
  \/ ComputeWindows
  \/ \E u \in Users \cup {NoUser} : AuthStateChanged(u)
  \/ \E k \in 1..MaxCbs : AuthRead(k)
  \/ \E k \in 1..MaxCbs : AuthCreate(k)
  \/ RunEffects
  \/ DeliverTasks
  \/ Tick
  \/ \E w \in notifyWrites, ok \in BOOLEAN : ApplyNotify(w, ok)
  \/ \E s \in StartTimes, h \in HoursInputs, ok \in BOOLEAN : handleAddTask(s, h, ok)
  \/ \E i \in TaskIds : CompleteInvoke(i)
  \/ \E k \in 1..MaxOps : CompleteRead(k)
  \/ \E k \in 1..MaxOps, ok \in BOOLEAN : CommitBatch(k, ok)
  \/ \E k \in 1..MaxOps, ok \in BOOLEAN : UpdateTaskDoc(k, ok)
  \/ \E k \in 1..MaxOps, ok \in BOOLEAN : UpdateStatsDoc(k, ok)
  \/ OpenResetDialog
  \/ CancelReset
  \/ handleResetData
  \/ \E k \in 1..MaxResets : ResetRead(k)
  \/ \E k \in 1..MaxResets, ok \in BOOLEAN : ResetCommit(k, ok)
  \/ DeliverStats
  \/ \E kind \in {"tasks", "stats"} : SubscriptionError(kind)
  \/ \E i \in TaskIds : Start(i)
  \/ \E i \in TaskIds : TimerPeriod(i)
  \/ \E i \in TaskIds, ok \in BOOLEAN : Stop(i, ok)
  \/ logOut
  \/ handleSignOut
  \/ \E f \in Forms : TypeForm(f)
  \/ \E ok \in BOOLEAN : SubmitAddTask(ok)
  \/ DeliverDaily
  \/ handleAddPenalty
  \/ \E k \in 1..MaxOps, ok \in BOOLEAN : PenaltyDaily(k, ok)
  \/ \E k \in 1..MaxOps : PenaltyRead(k)
  \/ \E k \in 1..MaxOps, ok \in BOOLEAN : PenaltyWrite(k, ok)
  \/ \E k \in 1..MaxOps, ok \in BOOLEAN : PenaltyHistory(k, ok)
  \/ \E k \in 1..MaxOps : PenaltyReenable(k)
  \/ \E k \in 1..MaxCbs : AuthFail(k)
  \/ \E u \in Users, n \in Names : RenameAccount(u, n)

Spec == Init /\ [][Next]_vars

====
